---- MODULE Spec2Model ----
(***************************************************************************)
(* The users service: the Express middleware chain of app.js, the security *)
(* middleware of middleware/security.js, the express-validator rule sets   *)
(* of middleware/validators.js and the CRUD handlers of routes/users.js,   *)
(* over a users table.                                                     *)
(*                                                                         *)
(* A string is a sequence of tokens; a token is a run of characters that   *)
(* the regular expressions of the code treat alike (a word, a space, a     *)
(* markup tag, a quote ...).  A request body or query is the depth-first   *)
(* list of its leaves, each with the path of keys that leads to it.        *)
(***************************************************************************)
EXTENDS Integers, Sequences, FiniteSets, TLC

(***************************************************************************)
(* Bounds of the model.                                                    *)
(***************************************************************************)
MaxReqs == 3         \* requests started in a behaviour of Spec
MaxQuotaReqs == 7    \* requests started in a behaviour of SpecQuota
MaxStoreReqs == 3    \* requests started in a behaviour of SpecStore
MaxGeneralReqs == 102 \* requests started in a behaviour of SpecGeneral
MaxId == 2           \* values the id sequence hands out
MaxNow == 1          \* readings of the store's clock

(***************************************************************************)
(* Program constants.                                                      *)
(***************************************************************************)
GeneralMax == 100
StrictMax == 5
ApiMax == 1000
MaxSize == 10485760
JsonLimit == 10240
PgIntMax == 2147483647

\* the connections: at most one request is in flight on each
Slots == {"r1", "r2"}
Clients == {"ip1", "ip2"}

(***************************************************************************)
(* Tokens.                                                                 *)
(***************************************************************************)
\* tokens made of word characters only ([A-Za-z0-9_]): \b falls at their ends
\* only when the neighbouring token is not one of them
LetterToks == {"John", "Doe", "Dana", "A", "Main", "St", "Haifa", "Israel",
               "DROP", "drop", "OR", "alert", "x"}
DigitToks == {"1", "0", "7", "999"}
WordToks == LetterToks \cup DigitToks
\* white space (\s)
SpaceToks == {" "}
\* markup: a token that holds a '<'
TagToks == {"<script>", "</script>", "<b>", "</b>", "<a href=\"x\">", "</a>"}
\* the serialised forms DOMPurify and escape() write for & < > ' "
EntityToks == {"&amp;", "&lt;", "&gt;", "&#x27;", "&quot;"}

\* the number of characters of a token
TokLen(t) ==
    CASE t \in {"A", "x", "1", "0", "7", " ", ";", "'", "\"", "=", "&", ".", "-", ","} -> 1
      [] t \in {"St", "OR", "--"} -> 2
      [] t \in {"Doe", "999", "<b>"} -> 3
      [] t \in {"John", "Dana", "Main", "DROP", "drop", "</b>", "</a>", "&lt;", "&gt;"} -> 4
      [] t \in {"Haifa", "alert", "&amp;", "+9725"} -> 5
      [] t \in {"Israel", "&#x27;", "&quot;"} -> 6
      [] t \in {"a@x.com", "A@x.com", "b@x.com"} -> 7
      [] t \in {"12345678", "<script>"} -> 8
      [] t = "</script>" -> 9
      [] t \in {"javascript:", "<a href=\"x\">"} -> 12
      [] OTHER -> 1

RECURSIVE StrLen(_)
StrLen(s) == IF s = <<>> THEN 0 ELSE TokLen(Head(s)) + StrLen(Tail(s))

(***************************************************************************)
(* Content Sanitizer: DOMPurify.sanitize(v, {ALLOWED_TAGS: [],             *)
(* ALLOWED_ATTR: [], KEEP_CONTENT: true}).  A string without '<' is        *)
(* returned as it is; otherwise every tag is removed, the content of a     *)
(* script element is dropped with it, the rest of the text is kept and     *)
(* serialised, which writes & as &amp;.                                    *)
(***************************************************************************)
Serialise(t) == IF t = "&" THEN "&amp;" ELSE t

\* a sanitizer that drops everything from a script tag to the end of the string
RECURSIVE StripFromToEnd(_, _, _)
StripFromToEnd(s, i, inScript) ==
    IF i > Len(s) \/ inScript THEN <<>>
    ELSE IF s[i] = "<script>" THEN StripFromToEnd(s, i + 1, TRUE)
    ELSE IF s[i] \in TagToks THEN StripFromToEnd(s, i + 1, FALSE)
    ELSE <<Serialise(s[i])>> \o StripFromToEnd(s, i + 1, FALSE)

RECURSIVE StripFrom(_, _, _)
StripFrom(s, i, inScript) ==
    IF i > Len(s) THEN <<>>
    ELSE IF inScript THEN StripFrom(s, i + 1, s[i] # "</script>")
    ELSE IF s[i] = "<script>" THEN StripFrom(s, i + 1, TRUE)
    ELSE IF s[i] \in TagToks THEN StripFrom(s, i + 1, FALSE)
    ELSE <<Serialise(s[i])>> \o StripFrom(s, i + 1, FALSE)

DOMPurifySanitize(s) ==
    IF \A i \in 1..Len(s) : s[i] \notin TagToks THEN s ELSE StripFrom(s, 1, FALSE)

\* xssProtection's sanitizeObject: every string leaf is replaced, the other
\* leaves are left alone
sanitizeObject(obj) ==
    [i \in 1..Len(obj) |->
        IF obj[i].isStr THEN [obj[i] EXCEPT !.v = DOMPurifySanitize(@)] ELSE obj[i]]

(***************************************************************************)
(* Injection Pattern Detector: the five regular expressions of             *)
(* detectSQLInjection.                                                     *)
(***************************************************************************)
\* \b(SELECT|...|DROP|...|SCRIPT)\b, case-insensitive: a keyword token
\* with no word token beside it, or a tag whose name is the keyword
KeywordToks == {"DROP", "drop"}
KeywordInside == {"<script>", "</script>"}
WholeWord(s, i) ==
    /\ (i = 1 \/ s[i - 1] \notin WordToks)
    /\ (i = Len(s) \/ s[i + 1] \notin WordToks)
PatKeyword(s) ==
    \E i \in 1..Len(s) :
        \/ s[i] \in KeywordInside
        \/ s[i] \in KeywordToks /\ WholeWord(s, i)
\* (;|--|/*|*/)
PatSyntax(s) == \E i \in 1..Len(s) : s[i] \in {";", "--"} \cup EntityToks
\* \b(OR|AND)\b.*=.*
HasEquals(t) == t \in {"=", "<a href=\"x\">"}
PatBoolean(s) ==
    \E i \in 1..Len(s) : \E j \in 1..Len(s) :
        /\ i < j
        /\ s[i] = "OR" /\ WholeWord(s, i)
        /\ HasEquals(s[j])
\* (1=1|1=0)
PatTautology(s) ==
    \E i \in 1..Len(s) :
        /\ i + 2 <= Len(s)
        /\ s[i] = "1" /\ s[i + 1] = "=" /\ s[i + 2] \in {"1", "0"}
\* ('|''|"|"")
PatQuote(s) == \E i \in 1..Len(s) : s[i] \in {"'", "\"", "<a href=\"x\">"}

detectSQLInjection(s) ==
    PatKeyword(s) \/ PatSyntax(s) \/ PatBoolean(s) \/ PatTautology(s) \/ PatQuote(s)

\* checkObject: the index of the first string leaf, in key order, that
\* matches a pattern; 0 when there is none
checkObject(obj) ==
    LET hits == {i \in 1..Len(obj) : obj[i].isStr /\ detectSQLInjection(obj[i].v)}
    IN  IF hits = {} THEN 0 ELSE CHOOSE i \in hits : \A j \in hits : i <= j

(***************************************************************************)
(* Bodies and queries: lists of leaves [path, v, isStr].                   *)
(***************************************************************************)
Leaf(k, v) == [path |-> <<k>>, v |-> v, isStr |-> TRUE]
NumLeaf(k, n) == [path |-> <<k>>, v |-> <<n>>, isStr |-> FALSE]

\* the leaves of obj at the indices of I, in order
RECURSIVE Pick(_, _, _)
Pick(obj, I, i) ==
    IF i > Len(obj) THEN <<>>
    ELSE (IF i \in I THEN <<obj[i]>> ELSE <<>>) \o Pick(obj, I, i + 1)

\* Object.keys / Object.entries of the body: its own keys in insertion order
ObjectKeys(obj) ==
    LET firsts == {i \in 1..Len(obj) : \A j \in 1..(i - 1) : obj[j].path[1] # obj[i].path[1]}
        picked == Pick(obj, firsts, 1)
    IN  [i \in 1..Len(picked) |-> picked[i].path[1]]

HasField(obj, k) == \E i \in 1..Len(obj) : obj[i].path = <<k>>
FieldIndex(obj, k) == CHOOSE i \in 1..Len(obj) : obj[i].path = <<k>>
\* req.body[k] of a scalar field; the empty string when the key is absent
\* (the validators' toString of undefined)
Field(obj, k) == IF HasField(obj, k) THEN obj[FieldIndex(obj, k)].v ELSE <<>>
SetField(obj, k, v) ==
    IF HasField(obj, k) THEN [obj EXCEPT ![FieldIndex(obj, k)].v = v] ELSE obj

(***************************************************************************)
(* Parameter Normalizer (hpp) on the parsed query: a key given several     *)
(* times is parsed to an array at the place of its first occurrence, and   *)
(* hpp keeps the array's last element.                                     *)
(***************************************************************************)
hppQuery(q) ==
    LET firsts == {i \in 1..Len(q) : \A j \in 1..(i - 1) : q[j].path # q[i].path}
        last(i) == CHOOSE j \in i..Len(q) :
                       /\ q[j].path = q[i].path
                       /\ \A k \in (j + 1)..Len(q) : q[k].path # q[i].path
    IN  Pick([i \in 1..Len(q) |-> q[last(i)]], firsts, 1)

(***************************************************************************)
(* Key Sanitizer (express-mongo-sanitize): a key that begins with '$' or   *)
(* holds a '.' is deleted with everything under it.                        *)
(***************************************************************************)
ProhibitedKeys == {"$where", "a.b"}
mongoSanitize(obj) ==
    Pick(obj, {i \in 1..Len(obj) :
                 \A n \in 1..Len(obj[i].path) : obj[i].path[n] \notin ProhibitedKeys}, 1)

(***************************************************************************)
(* The sanitizers of express-validator used by the rule sets.              *)
(***************************************************************************)
RECURSIVE TrimLeft(_)
TrimLeft(s) == IF s # <<>> /\ Head(s) \in SpaceToks THEN TrimLeft(Tail(s)) ELSE s
RECURSIVE TrimRight(_)
TrimRight(s) ==
    IF s # <<>> /\ s[Len(s)] \in SpaceToks THEN TrimRight(SubSeq(s, 1, Len(s) - 1)) ELSE s
\* .trim()
Trim(s) == TrimRight(TrimLeft(s))

\* .escape(): & < > ' " / \ ` are replaced by entities
EscapeTok(t) ==
    CASE t = "&" -> <<"&amp;">>
      [] t = "'" -> <<"&#x27;">>
      [] t = "\"" -> <<"&quot;">>
      [] t = "<b>" -> <<"&lt;", "b", "&gt;">>
      [] OTHER -> <<t>>
RECURSIVE Escape(_)
Escape(s) == IF s = <<>> THEN <<>> ELSE EscapeTok(Head(s)) \o Escape(Tail(s))

\* value.replace(/\s+/g, ' ').trim()
RECURSIVE SqueezeSpaces(_)
SqueezeSpaces(s) ==
    IF s = <<>> THEN <<>>
    ELSE IF Head(s) \in SpaceToks
         THEN IF Len(s) > 1 /\ s[2] \in SpaceToks
              THEN SqueezeSpaces(Tail(s))
              ELSE <<" ">> \o SqueezeSpaces(Tail(s))
         ELSE <<Head(s)>> \o SqueezeSpaces(Tail(s))
CollapseSpaces(s) == Trim(SqueezeSpaces(s))

\* normalizeEmail with the sub-address options off: the address in lower case
ValidEmails == {"a@x.com", "A@x.com", "b@x.com", "a+scripts@x.com"}
NormaliseTok(t) == IF t = "A@x.com" THEN "a@x.com" ELSE t
normalizeEmail(s) ==
    IF Len(s) = 1 /\ s[1] \in ValidEmails THEN <<NormaliseTok(s[1])>> ELSE s
\* isEmail()
isEmail(s) == Len(s) = 1 /\ s[1] \in ValidEmails

\* phone customSanitizer: value.replace(/[^\d+]/g, '')
PhoneChars == {"+9725", "12345678"} \cup DigitToks
RECURSIVE KeepPhoneChars(_)
KeepPhoneChars(s) ==
    IF s = <<>> THEN <<>>
    ELSE (IF Head(s) \in PhoneChars THEN <<Head(s)>> ELSE <<>>) \o KeepPhoneChars(Tail(s))

\* /^[a-zA-Z\s<Hebrew><Arabic>.-]+$/
MatchesNameChars(s) ==
    s # <<>> /\ \A i \in 1..Len(s) : s[i] \in LetterToks \cup SpaceToks \cup {".", "-"}
\* /^[a-zA-Z0-9\s<Hebrew><Arabic>.,-]+$/
MatchesAddressChars(s) ==
    s # <<>> /\ \A i \in 1..Len(s) : s[i] \in WordToks \cup SpaceToks \cup {".", ",", "-"}
\* /^\+9725\d{8}$/
MatchesPhone(s) == s = <<"+9725", "12345678">>

(***************************************************************************)
(* Field Validator: the rule sets validateId, validateUser and             *)
(* validateUserUpdate.  A rule gives the errors it records, each with the  *)
(* field, the message and the rejected value, and the value it writes back *)
(* to req.body; every failing validator of a chain records its error.      *)
(***************************************************************************)
Err(field, msg, value) == [field |-> field, message |-> msg, value |-> value]
When(cond, e) == IF cond THEN <<e>> ELSE <<>>

\* name, city, country: trim, isLength, matches, escape, collapse spaces
TextRule(field, v0, min, max, lenMsg, charMsg) ==
    LET v1 == Trim(v0)
    IN  [errors |-> When(~(StrLen(v1) >= min /\ StrLen(v1) <= max), Err(field, lenMsg, v1))
                    \o When(~MatchesNameChars(v1), Err(field, charMsg, v1)),
         v |-> CollapseSpaces(Escape(v1))]

\* address: the same chain with digits and commas allowed
AddressRule(v0) ==
    LET v1 == Trim(v0)
    IN  [errors |-> When(~(StrLen(v1) >= 5 /\ StrLen(v1) <= 255),
                         Err("address", "Address must be between 5 and 255 characters", v1))
                    \o When(~MatchesAddressChars(v1),
                            Err("address", "Address contains invalid characters", v1)),
         v |-> CollapseSpaces(Escape(v1))]

\* the custom check of validateUser's email chain:
\* /\+.*script/i, /javascript:/i, /data:/i, /<.*>/
SuspiciousEmail(s) == \E i \in 1..Len(s) : s[i] \in {"a+scripts@x.com", "javascript:"}

\* email: trim, isEmail, isLength, normalizeEmail, and in the full rule set
\* the suspicious-pattern check
EmailRule(v0, full) ==
    LET v1 == Trim(v0)
        v2 == normalizeEmail(v1)
    IN  [errors |-> When(~isEmail(v1), Err("email", "Must be a valid email address", v1))
                    \o When(StrLen(v1) > 254, Err("email", "Email address too long", v1))
                    \o When(full /\ SuspiciousEmail(v2),
                            Err("email", "Email contains suspicious content", v2)),
         v |-> v2]

\* phone: trim, matches, strip to digits and '+', and in the full rule set
\* the length check
PhoneRule(v0, full) ==
    LET v1 == Trim(v0)
        v2 == KeepPhoneChars(v1)
    IN  [errors |-> When(~MatchesPhone(v1),
                         Err("phone", "Must be a valid Israeli phone number (+9725xxxxxxxx)", v1))
                    \o When(full /\ StrLen(v2) # 13,
                            Err("phone", "Phone number must be exactly 13 characters", v2)),
         v |-> v2]

NameRule(v0) ==
    TextRule("name", v0, 2, 100, "Name must be between 2 and 100 characters",
             "Name can only contain letters, spaces, dots, hyphens, and Hebrew/Arabic characters")
CityRule(v0) ==
    TextRule("city", v0, 2, 100, "City must be between 2 and 100 characters",
             "City can only contain letters, spaces, dots, hyphens, and Hebrew/Arabic characters")
CountryRule(v0) ==
    TextRule("country", v0, 2, 100, "Country must be between 2 and 100 characters",
             "Country can only contain letters, spaces, dots, hyphens, and Hebrew/Arabic characters")

allowedFields == <<"name", "email", "phone", "address", "city", "country">>
AllowedSet == {allowedFields[i] : i \in 1..Len(allowedFields)}

\* the rule of a field, in the full (POST, PUT) or the partial (PATCH) rule set
FieldRule(k, v0, full) ==
    CASE k = "name" -> NameRule(v0)
      [] k = "email" -> EmailRule(v0, full)
      [] k = "phone" -> PhoneRule(v0, full)
      [] k = "address" -> AddressRule(v0)
      [] k = "city" -> CityRule(v0)
      [] k = "country" -> CountryRule(v0)

\* Object.values(req.body).join(' ')
RECURSIVE JoinValues(_, _)
JoinValues(obj, i) ==
    IF i > Len(obj) THEN <<>>
    ELSE obj[i].v \o (IF i < Len(obj) THEN <<" ">> ELSE <<>>) \o JoinValues(obj, i + 1)

\* the dangerousPatterns of validateUser's body().custom:
\* <script ...>...</script>, javascript:, on\w+\s*=, vbscript:, data:text/html
DangerousContent(s) ==
    \/ \E i \in 1..Len(s) : \E j \in 1..Len(s) :
           i < j /\ s[i] = "<script>" /\ s[j] = "</script>"
    \/ \E i \in 1..Len(s) : s[i] \in {"javascript:", "vbscript:", "data:text/html"}
    \/ \E i \in 1..Len(s) : \E j \in 1..Len(s) :
           /\ i < j /\ s[i] \in {"onload", "onerror"} /\ s[j] = "="
           /\ \A n \in (i + 1)..(j - 1) : s[n] \in SpaceToks

\* a rule set that stops at the first field that fails
RECURSIVE RunRulesFailFast(_, _, _, _)
RunRulesFailFast(obj, i, full, errors) ==
    IF i > Len(allowedFields) \/ errors # <<>> THEN [errors |-> errors, body |-> obj]
    ELSE LET k == allowedFields[i]
         IN  IF ~full /\ ~HasField(obj, k)
             THEN RunRulesFailFast(obj, i + 1, full, errors)
             ELSE LET r == FieldRule(k, Field(obj, k), full)
                  IN  RunRulesFailFast(SetField(obj, k, r.v), i + 1, full, errors \o r.errors)

\* the chains of a rule set run in order, each on the body the one before left
RECURSIVE RunRules(_, _, _, _)
RunRules(obj, i, full, errors) ==
    IF i > Len(allowedFields) THEN [errors |-> errors, body |-> obj]
    ELSE LET k == allowedFields[i]
         IN  IF ~full /\ ~HasField(obj, k)
             THEN RunRules(obj, i + 1, full, errors)
             ELSE LET r == FieldRule(k, Field(obj, k), full)
                  IN  RunRules(SetField(obj, k, r.v), i + 1, full, errors \o r.errors)

\* validateUser: the six chains, then the cross-field check
validateUser(obj) ==
    LET r == RunRules(obj, 1, TRUE, <<>>)
    IN  [errors |-> r.errors
                    \o When(DangerousContent(JoinValues(r.body, 1)),
                            Err("", "Suspicious content detected in request", <<>>)),
         body |-> r.body]

\* validateUserUpdate: the optional chains, then the at-least-one-field check
validateUserUpdate(obj) ==
    LET r == RunRules(obj, 1, FALSE, <<>>)
        keys == ObjectKeys(obj)
        providedFields == {i \in 1..Len(keys) : keys[i] \in AllowedSet}
    IN  [errors |-> r.errors
                    \o When(providedFields = {},
                            Err("", "At least one field must be provided for update", <<>>)),
         body |-> r.body]

\* validateId: isInt({min: 1, max: 2147483647}), toInt, and the custom check
\* of the characters ' " ` ; \ - in the converted value
IdInputs == {"1", "2", "3", "0", "-1", "abc", "2147483648", "1' OR 1=1 --"}
IsIntString(s) == s \in {"1", "2", "3", "0", "-1", "2147483648"}
\* the integer strings above 2147483647: toInt keeps them at the largest
\* integer the model's arithmetic has, and the range check reads the string
AboveMax(s) == s = "2147483648"
toInt(s) ==
    CASE s = "1" -> 1 [] s = "2" -> 2 [] s = "3" -> 3 [] s = "0" -> 0
      [] s = "-1" -> -1 [] s = "2147483648" -> PgIntMax
      [] OTHER -> 0
\* an id check that asks for an integer but for no range
validateIdAnyInteger(s) ==
    [errors |-> When(~IsIntString(s),
                     Err("id", "ID must be a positive integer within valid range", <<s>>)),
     id |-> toInt(s)]

validateId(s) ==
    [errors |-> When(~(IsIntString(s) /\ toInt(s) >= 1 /\ toInt(s) <= PgIntMax /\ ~AboveMax(s)),
                     Err("id", "ID must be a positive integer within valid range", <<s>>))
                \o When(IsIntString(s) /\ toInt(s) < 0,
                        Err("id", "Invalid characters in ID", <<s>>)),
     id |-> toInt(s)]

(***************************************************************************)
(* State.                                                                  *)
(***************************************************************************)
VARIABLES
    users,      \* the rows of the users table
    nextId,     \* the next value of users_id_seq
    now,        \* the store's clock (CURRENT_TIMESTAMP)
    nodeEnv,    \* process.env.NODE_ENV
    hits,       \* hits[l][c]: requests of client c counted by limiter l in the window
    started,    \* requests received so far
    in,         \* in[r]: request r as the client sent it
    req,        \* req[r]: the request object the stages read and rewrite
    pc,         \* pc[r]: the stage or handler step request r is at
    running,    \* the request whose synchronous run holds the event loop, or "none"
    res,        \* res[r]: the response sent to request r
    hdr,        \* hdr[r]: the response headers set so far
    err,        \* err[r]: the error passed to next(err)
    stmt,       \* stmt[r]: the UPDATE statement PATCH built
    trace,      \* trace[r]: the stages that ran for request r, in order
    queries,    \* queries[r]: the statements request r sent to the store
    counted,    \* counted[r]: the limiters that counted request r
    strictLog   \* per client, whether each of its arrivals at strictLimiter was let through

storeVars == <<users, nextId, now>>
vars == <<users, nextId, now, nodeEnv, hits, started, in, req, pc, running, res, hdr, err,
          stmt, trace, queries, counted, strictLog>>

Limiters == {"general", "api", "strict"}

(***************************************************************************)
(* The middleware chain: app.js registers the stages in this order; the    *)
(* router adds the stages of the matched route.                            *)
(***************************************************************************)
\* a registration order with the Injection Pattern Detector put first
AppStackDetectorFirst ==
    <<"sqlInjectionProtection", "securityHeaders", "helmet", "cors", "requestSizeLimiter",
      "json", "urlencoded", "hpp", "mongoSanitize", "xssProtection", "generalLimiter">>

AppStack ==
    <<"securityHeaders", "helmet", "cors", "requestSizeLimiter", "json", "urlencoded",
      "hpp", "mongoSanitize", "xssProtection", "sqlInjectionProtection",
      "generalLimiter">>

\* a router that puts the Sensitive limiter on the list route too
RouteStackStrictOnList(op) ==
    CASE op = "list" -> <<"apiLimiter", "strictLimiter", "listUsers">>
      [] op = "get" -> <<"apiLimiter", "validateId", "getUser">>
      [] op = "create" -> <<"apiLimiter", "strictLimiter", "validateUser", "createUser">>
      [] op = "put" ->
            <<"apiLimiter", "strictLimiter", "validateId", "validateUser", "updateUser">>
      [] op = "patch" ->
            <<"apiLimiter", "strictLimiter", "validateId", "validateUserUpdate", "patchUser">>
      [] op = "delete" -> <<"apiLimiter", "strictLimiter", "validateId", "deleteUser">>
      [] op = "health" -> <<"health">>
      [] op = "unmatchedApi" -> <<"apiLimiter", "notFound">>
      [] OTHER -> <<"notFound">>

RouteStack(op) ==
    CASE op = "list" -> <<"apiLimiter", "listUsers">>
      [] op = "get" -> <<"apiLimiter", "validateId", "getUser">>
      [] op = "create" -> <<"apiLimiter", "strictLimiter", "validateUser", "createUser">>
      [] op = "put" ->
            <<"apiLimiter", "strictLimiter", "validateId", "validateUser", "updateUser">>
      [] op = "patch" ->
            <<"apiLimiter", "strictLimiter", "validateId", "validateUserUpdate", "patchUser">>
      [] op = "delete" -> <<"apiLimiter", "strictLimiter", "validateId", "deleteUser">>
      [] op = "health" -> <<"health">>
      [] op = "unmatchedApi" -> <<"apiLimiter", "notFound">>
      [] OTHER -> <<"notFound">>

\* a chain in which the limiters of the route count before the General limiter
StackRouteLimitersFirst(op) ==
    LET IsLimiter(st) == st \in {"apiLimiter", "strictLimiter"}
        NotLimiter(st) == ~IsLimiter(st)
    IN  SubSeq(AppStack, 1, Len(AppStack) - 1)
          \o SelectSeq(RouteStack(op), IsLimiter)
          \o <<"generalLimiter">>
          \o SelectSeq(RouteStack(op), NotLimiter)

Stack(op) == AppStack \o RouteStack(op)

\* the stage next() hands the request to
NextStage(op, stage) ==
    LET st == Stack(op)
        i == CHOOSE n \in 1..Len(st) : st[n] = stage
    IN  st[i + 1]

NoRes == [status |-> 0, error |-> "", message |-> "", field |-> <<>>,
          details |-> <<>>, data |-> <<>>, stack |-> FALSE]
NoErr == [status |-> 0, name |-> "", code |-> "", message |-> ""]
NoStmt == [updateFields |-> <<>>, values |-> <<>>, paramCount |-> 0]
NoHdr == [sec |-> {<<"X-Powered-By", "Express">>}, limit |-> -1, remaining |-> -1]
NoIn == [op |-> "none", client |-> "ip1", rid |-> "1", clen |-> 0,
         query |-> <<>>, body |-> <<>>]
NoReq == [query |-> <<>>, body |-> <<>>, id |-> 0]

Init ==
    /\ users = {}
    /\ nextId = 1
    /\ now = 0
    /\ nodeEnv \in {"production", "development"}
    /\ hits = [l \in Limiters |-> [c \in Clients |-> 0]]
    /\ started = 0
    /\ in = [r \in Slots |-> NoIn]
    /\ req = [r \in Slots |-> NoReq]
    /\ pc = [r \in Slots |-> "idle"]
    /\ running = "none"
    /\ res = [r \in Slots |-> NoRes]
    /\ hdr = [r \in Slots |-> NoHdr]
    /\ err = [r \in Slots |-> NoErr]
    /\ stmt = [r \in Slots |-> NoStmt]
    /\ trace = [r \in Slots |-> <<>>]
    /\ queries = [r \in Slots |-> <<>>]
    /\ counted = [r \in Slots |-> {}]
    /\ strictLog = [c \in Clients |-> <<>>]

(***************************************************************************)
(* Steps shared by the stages.                                             *)
(***************************************************************************)
Ran(r) == trace' = [trace EXCEPT ![r] = Append(@, pc[r])]

\* The stages that run in the same turn of the event loop as the stage before
\* them.  A turn ends where the request waits for input or output: for its
\* body (the body parser) and for the store (every pool.query).  The
\* limiters (in-memory counters) and the validators wait for nothing
\* outside the process, so no other request's callback runs between them.
SyncStages ==
    {"securityHeaders", "helmet", "cors", "requestSizeLimiter", "urlencoded", "hpp",
     "mongoSanitize", "xssProtection", "sqlInjectionProtection", "generalLimiter",
     "apiLimiter", "strictLimiter", "validateId", "validateUser", "validateUserUpdate",
     "health", "notFound", "errorHandler"}
Turn(r, to) == running' = IF to \in SyncStages THEN r ELSE "none"

\* request r is at `stage` and the event loop is free to run it
At(r, stage) == pc[r] = stage /\ running \in {"none", r}

\* next(): the request goes to the following stage
Pass(r) ==
    /\ pc' = [pc EXCEPT ![r] = NextStage(in[r].op, pc[r])]
    /\ Turn(r, NextStage(in[r].op, pc[r]))
    /\ Ran(r)

\* res.status(..).json(..): the response is sent and the chain ends
Send(r, response) ==
    /\ res' = [res EXCEPT ![r] = response]
    /\ pc' = [pc EXCEPT ![r] = "done"]
    /\ running' = "none"
    /\ Ran(r)

\* next(err): the request goes to the global error handler
Throw(r, e) ==
    /\ err' = [err EXCEPT ![r] = e]
    /\ pc' = [pc EXCEPT ![r] = "errorHandler"]
    /\ Turn(r, "errorHandler")
    /\ Ran(r)

Json(status, error, message) ==
    [NoRes EXCEPT !.status = status, !.error = error, !.message = message]

InFlightCreates(r) ==
    {s \in Slots \ {r} : in[s].op = "create" /\ pc[s] \notin {"idle", "done"}}

\* a request arrives on a free connection
Begin(r, inputs, max) ==
    /\ pc[r] \in {"idle", "done"}
    /\ running = "none"
    /\ started < max
    /\ \E i \in inputs :
        /\ i.op = "create" => nextId + Cardinality(InFlightCreates(r)) <= MaxId
        /\ in' = [in EXCEPT ![r] = i]
        /\ req' = [req EXCEPT ![r] = [NoReq EXCEPT !.query = i.query]]
    /\ started' = started + 1
    /\ pc' = [pc EXCEPT ![r] = AppStack[1]]
    /\ Turn(r, AppStack[1])
    /\ res' = [res EXCEPT ![r] = NoRes]
    /\ hdr' = [hdr EXCEPT ![r] = NoHdr]
    /\ err' = [err EXCEPT ![r] = NoErr]
    /\ stmt' = [stmt EXCEPT ![r] = NoStmt]
    /\ trace' = [trace EXCEPT ![r] = <<>>]
    /\ queries' = [queries EXCEPT ![r] = <<>>]
    /\ counted' = [counted EXCEPT ![r] = {}]
    /\ UNCHANGED <<storeVars, nodeEnv, hits, strictLog>>

(***************************************************************************)
(* The global stages of app.js.                                            *)
(***************************************************************************)
SetHeaders(h, pairs, removed) ==
    {p \in h : p[1] \notin removed \cup {q[1] : q \in pairs}} \cup pairs

\* Header Hardener
securityHeaders(r) ==
    /\ At(r, "securityHeaders")
    /\ hdr' = [hdr EXCEPT ![r].sec =
                  SetHeaders(@, {<<"X-Content-Type-Options", "nosniff">>,
                                 <<"X-Frame-Options", "DENY">>,
                                 <<"X-XSS-Protection", "1; mode=block">>,
                                 <<"Referrer-Policy", "strict-origin-when-cross-origin">>,
                                 <<"Permissions-Policy",
                                   "geolocation=(), microphone=(), camera=()">>},
                             {"X-Powered-By"})]
    /\ Pass(r)
    /\ UNCHANGED <<storeVars, nodeEnv, hits, started, in, req, res, err, stmt, queries,
                   counted, strictLog>>

\* helmet({contentSecurityPolicy: cspOptions, crossOriginEmbedderPolicy: false})
helmet(r) ==
    /\ At(r, "helmet")
    /\ hdr' = [hdr EXCEPT ![r].sec =
                  SetHeaders(@, {<<"Content-Security-Policy", "default-src 'self'">>,
                                 <<"X-Content-Type-Options", "nosniff">>,
                                 <<"X-Frame-Options", "SAMEORIGIN">>,
                                 <<"X-XSS-Protection", "0">>,
                                 <<"Referrer-Policy", "no-referrer">>},
                             {"X-Powered-By"})]
    /\ Pass(r)
    /\ UNCHANGED <<storeVars, nodeEnv, hits, started, in, req, res, err, stmt, queries,
                   counted, strictLog>>

\* cors: a preflight (OPTIONS) request is answered 204 here
cors(r) ==
    /\ At(r, "cors")
    /\ IF in[r].op = "options"
       THEN Send(r, Json(204, "", ""))
       ELSE Pass(r) /\ UNCHANGED res
    /\ UNCHANGED <<storeVars, nodeEnv, hits, started, in, req, hdr, err, stmt, queries,
                   counted, strictLog>>

\* Size Guard
\* a Size Guard that answers 413 and calls next() all the same
requestSizeLimiterNoReturn(r) ==
    /\ At(r, "requestSizeLimiter")
    /\ res' = IF in[r].clen > MaxSize
              THEN [res EXCEPT ![r] = Json(413, "Request entity too large", "")]
              ELSE res
    /\ Pass(r)
    /\ UNCHANGED <<storeVars, nodeEnv, hits, started, in, req, hdr, err, stmt, queries,
                   counted, strictLog>>

requestSizeLimiter(r) ==
    /\ At(r, "requestSizeLimiter")
    /\ IF in[r].clen > MaxSize
       THEN Send(r, Json(413, "Request entity too large", ""))
       ELSE Pass(r) /\ UNCHANGED res
    /\ UNCHANGED <<storeVars, nodeEnv, hits, started, in, req, hdr, err, stmt, queries,
                   counted, strictLog>>

\* express.json({limit: '10kb'}): a longer body is an error passed to next(err)
json(r) ==
    /\ At(r, "json")
    /\ IF in[r].clen > JsonLimit
       THEN /\ Throw(r, [NoErr EXCEPT !.status = 413, !.name = "PayloadTooLargeError",
                                    !.message = "request entity too large"])
            /\ UNCHANGED req
       ELSE /\ req' = [req EXCEPT ![r].body = in[r].body]
            /\ Pass(r)
            /\ UNCHANGED err
    /\ UNCHANGED <<storeVars, nodeEnv, hits, started, in, res, hdr, stmt, queries,
                   counted, strictLog>>

\* express.urlencoded: the bodies here are JSON, which it passes by
urlencoded(r) ==
    /\ At(r, "urlencoded")
    /\ Pass(r)
    /\ UNCHANGED <<storeVars, nodeEnv, hits, started, in, req, res, hdr, err, stmt,
                   queries, counted, strictLog>>

\* Parameter Normalizer
hpp(r) ==
    /\ At(r, "hpp")
    /\ req' = [req EXCEPT ![r].query = hppQuery(@)]
    /\ Pass(r)
    /\ UNCHANGED <<storeVars, nodeEnv, hits, started, in, res, hdr, err, stmt, queries,
                   counted, strictLog>>

\* Key Sanitizer
mongoSanitizeStage(r) ==
    /\ At(r, "mongoSanitize")
    /\ req' = [req EXCEPT ![r].body = mongoSanitize(@), ![r].query = mongoSanitize(@)]
    /\ Pass(r)
    /\ UNCHANGED <<storeVars, nodeEnv, hits, started, in, res, hdr, err, stmt, queries,
                   counted, strictLog>>

\* Content Sanitizer; req.params is empty in a middleware mounted without a path
xssProtection(r) ==
    /\ At(r, "xssProtection")
    /\ req' = [req EXCEPT ![r].body = sanitizeObject(@), ![r].query = sanitizeObject(@)]
    /\ Pass(r)
    /\ UNCHANGED <<storeVars, nodeEnv, hits, started, in, res, hdr, err, stmt, queries,
                   counted, strictLog>>

\* a detector that reads the body only
sqlInjectionProtectionBodyOnly(r) ==
    /\ At(r, "sqlInjectionProtection")
    /\ LET b == checkObject(req[r].body)
       IN  IF b # 0
           THEN Send(r, [Json(400, "Potential SQL injection detected", "")
                            EXCEPT !.field = req[r].body[b].path])
           ELSE Pass(r) /\ UNCHANGED res
    /\ UNCHANGED <<storeVars, nodeEnv, hits, started, in, req, hdr, err, stmt, queries,
                   counted, strictLog>>

\* Injection Pattern Detector: the body, then the query, then the (empty) params
sqlInjectionProtection(r) ==
    /\ At(r, "sqlInjectionProtection")
    /\ LET b == checkObject(req[r].body)
           q == checkObject(req[r].query)
       IN  IF b # 0
           THEN Send(r, [Json(400, "Potential SQL injection detected", "")
                            EXCEPT !.field = req[r].body[b].path])
           ELSE IF q # 0
           THEN Send(r, [Json(400, "Potential SQL injection detected", "")
                            EXCEPT !.field = req[r].query[q].path])
           ELSE Pass(r) /\ UNCHANGED res
    /\ UNCHANGED <<storeVars, nodeEnv, hits, started, in, req, hdr, err, stmt, queries,
                   counted, strictLog>>

(***************************************************************************)
(* Rate Limiters: express-rate-limit with skipSuccessfulRequests and       *)
(* skipFailedRequests off.  The request is counted on arrival; the         *)
(* RateLimit headers are set; over the maximum the limiter answers 429     *)
(* with its message.                                                       *)
(***************************************************************************)
LimiterMax(l) ==
    CASE l = "general" -> GeneralMax [] l = "api" -> ApiMax [] l = "strict" -> StrictMax
LimiterMessage(l) ==
    CASE l = "general" -> "Too many requests from this IP, please try again after 15 minutes"
      [] l = "api" -> "API rate limit exceeded, please try again after an hour"
      [] l = "strict" -> "Too many attempts, please try again after 15 minutes"

\* a limiter that refuses the request that reaches the maximum
AdmitsBelowMax(l, n) == n < LimiterMax(l)

\* whether a request that is the n-th hit of its client in the window is let through
Admits(l, n) == n <= LimiterMax(l)
Remaining(l, n) == IF LimiterMax(l) - n > 0 THEN LimiterMax(l) - n ELSE 0

createRateLimit(r, l) ==
    LET c == in[r].client
        n == hits[l][c] + 1
    IN  /\ hits' = [hits EXCEPT ![l][c] = n]
        /\ counted' = [counted EXCEPT ![r] = @ \cup {l}]
        /\ hdr' = [hdr EXCEPT ![r].limit = LimiterMax(l), ![r].remaining = Remaining(l, n)]
        /\ IF Admits(l, n)
           THEN Pass(r) /\ UNCHANGED res
           ELSE Send(r, Json(429, LimiterMessage(l), ""))
        /\ strictLog' = IF l = "strict"
                        THEN [strictLog EXCEPT ![c] = Append(@, Admits(l, n))]
                        ELSE strictLog

generalLimiter(r) ==
    /\ At(r, "generalLimiter")
    /\ createRateLimit(r, "general")
    /\ UNCHANGED <<storeVars, nodeEnv, started, in, req, err, stmt, queries>>

apiLimiter(r) ==
    /\ At(r, "apiLimiter")
    /\ createRateLimit(r, "api")
    /\ UNCHANGED <<storeVars, nodeEnv, started, in, req, err, stmt, queries>>

strictLimiter(r) ==
    /\ At(r, "strictLimiter")
    /\ createRateLimit(r, "strict")
    /\ UNCHANGED <<storeVars, nodeEnv, started, in, req, err, stmt, queries>>

(***************************************************************************)
(* The validation stages of the routes.                                    *)
(***************************************************************************)
\* validate: the errors of the chains, if any, are sent as one 400 response
ValidationFailed(errors) ==
    [Json(400, "Validation failed", "") EXCEPT !.details = errors]

validateIdStage(r) ==
    /\ At(r, "validateId")
    /\ LET v == validateId(in[r].rid)
       IN  /\ req' = [req EXCEPT ![r].id = v.id]
           /\ IF v.errors # <<>>
              THEN Send(r, ValidationFailed(v.errors))
              ELSE Pass(r) /\ UNCHANGED res
    /\ UNCHANGED <<storeVars, nodeEnv, hits, started, in, hdr, err, stmt, queries,
                   counted, strictLog>>

validateUserStage(r) ==
    /\ At(r, "validateUser")
    /\ LET v == validateUser(req[r].body)
       IN  /\ req' = [req EXCEPT ![r].body = v.body]
           /\ IF v.errors # <<>>
              THEN Send(r, ValidationFailed(v.errors))
              ELSE Pass(r) /\ UNCHANGED res
    /\ UNCHANGED <<storeVars, nodeEnv, hits, started, in, hdr, err, stmt, queries,
                   counted, strictLog>>

validateUserUpdateStage(r) ==
    /\ At(r, "validateUserUpdate")
    /\ LET v == validateUserUpdate(req[r].body)
       IN  /\ req' = [req EXCEPT ![r].body = v.body]
           /\ IF v.errors # <<>>
              THEN Send(r, ValidationFailed(v.errors))
              ELSE Pass(r) /\ UNCHANGED res
    /\ UNCHANGED <<storeVars, nodeEnv, hits, started, in, hdr, err, stmt, queries,
                   counted, strictLog>>

(***************************************************************************)
(* The users table: id from the sequence users_id_seq, email unique,       *)
(* created_at and updated_at defaulting to CURRENT_TIMESTAMP.              *)
(***************************************************************************)
SelectById(id) == {u \in users : u.id = id}
SelectByEmail(email) == {u \in users : u.email = email}
\* a uniqueness query that forgets to leave the target row out
SelectByEmailAnyId(email, id) == {u \in users : u.email = email}
SelectByEmailNotId(email, id) == {u \in users : u.email = email /\ u.id # id}

\* the unique constraint on email: whether a row other than `id` holds it
UniqueViolation(email, id) == SelectByEmailNotId(email, id) # {}

\* an INSERT that takes the id from the body when the body has one
NewRowClientId(id, b, t) ==
    [id |-> IF HasField(b, "id") THEN toInt(Field(b, "id")[1]) ELSE id,
     name |-> Field(b, "name"), email |-> Field(b, "email"),
     phone |-> Field(b, "phone"), address |-> Field(b, "address"),
     city |-> Field(b, "city"), country |-> Field(b, "country"),
     created_at |-> t, updated_at |-> t]

NewRow(id, b, t) ==
    [id |-> id, name |-> Field(b, "name"), email |-> Field(b, "email"),
     phone |-> Field(b, "phone"), address |-> Field(b, "address"),
     city |-> Field(b, "city"), country |-> Field(b, "country"),
     created_at |-> t, updated_at |-> t]

\* ORDER BY id ASC
RECURSIVE OrderById(_)
OrderById(rows) ==
    IF rows = {} THEN <<>>
    ELSE LET first == CHOOSE u \in rows : \A w \in rows : u.id <= w.id
         IN  <<first>> \o OrderById(rows \ {first})

\* UPDATE users SET <updateFields> WHERE id = ...: the assignments applied to a
\* row at time t; param 0 stands for CURRENT_TIMESTAMP, param n for $n
RECURSIVE Assign(_, _, _, _, _)
Assign(row, updateFields, values, t, i) ==
    IF i > Len(updateFields) THEN row
    ELSE Assign([row EXCEPT ![updateFields[i].col] =
                     IF updateFields[i].param = 0 THEN t
                     ELSE values[updateFields[i].param]],
                updateFields, values, t, i + 1)

\* the store's clock never runs backwards
ClockValues == now..MaxNow

Issue(r, q) == queries' = [queries EXCEPT ![r] = Append(@, q)]

\* pool.query rejects: the handler's catch answers 500
StoreFails(r, q, message) ==
    /\ Issue(r, q)
    /\ Send(r, Json(500, "Internal server error", message))
    /\ UNCHANGED <<storeVars, nodeEnv, hits, started, in, req, hdr, err, stmt,
                   counted, strictLog>>

\* the handler awaits its next store call
Step(r, to) == pc' = [pc EXCEPT ![r] = to] /\ running' = "none" /\ Ran(r)

UserNotFound == Json(404, "User not found", "No user found with ID: <id>")
EmailExists == Json(409, "Email already exists", "A user with this email address already exists")
EmailExistsOther ==
    Json(409, "Email already exists", "Another user with this email address already exists")

(***************************************************************************)
(* Resource handlers.  Every await of pool.query ends a step: another      *)
(* request may run before the handler goes on.                             *)
(***************************************************************************)
\* GET /api/users
listUsers(r) ==
    /\ At(r, "listUsers")
    /\ \/ /\ Issue(r, "SELECT")
          /\ Send(r, [Json(200, "", "") EXCEPT !.data = OrderById(users)])
          /\ UNCHANGED <<storeVars, nodeEnv, hits, started, in, req, hdr, err, stmt,
                         counted, strictLog>>
       \/ StoreFails(r, "SELECT", "Failed to retrieve users")

\* GET /api/users/:id
getUser(r) ==
    /\ At(r, "getUser")
    /\ \/ /\ Issue(r, "SELECT")
          /\ IF SelectById(req[r].id) = {}
             THEN Send(r, UserNotFound)
             ELSE Send(r, [Json(200, "", "") EXCEPT !.data = OrderById(SelectById(req[r].id))])
          /\ UNCHANGED <<storeVars, nodeEnv, hits, started, in, req, hdr, err, stmt,
                         counted, strictLog>>
       \/ StoreFails(r, "SELECT", "Failed to retrieve user")

\* POST /api/users: the uniqueness pre-check
createUser(r) ==
    /\ At(r, "createUser")
    /\ \/ /\ Issue(r, "SELECT")
          /\ IF SelectByEmail(Field(req[r].body, "email")) # {}
             THEN Send(r, EmailExists)
             ELSE Step(r, "createUser.insert") /\ UNCHANGED res
          /\ UNCHANGED <<storeVars, nodeEnv, hits, started, in, req, hdr, err, stmt,
                         counted, strictLog>>
       \/ StoreFails(r, "SELECT", "Failed to create user")

\* an INSERT handler whose catch does not tell a unique violation from any
\* other error
createUserInsertUnmapped(r) ==
    /\ At(r, "createUser.insert")
    /\ \/ /\ Issue(r, "INSERT")
          /\ nextId' = nextId + 1
          /\ IF UniqueViolation(Field(req[r].body, "email"), 0)
             THEN /\ Send(r, Json(500, "Internal server error", "Failed to create user"))
                  /\ UNCHANGED <<users, now>>
             ELSE \E t \in ClockValues :
                  /\ now' = t
                  /\ users' = users \cup {NewRow(nextId, req[r].body, t)}
                  /\ Send(r, [Json(201, "", "User created successfully")
                                 EXCEPT !.data = <<NewRow(nextId, req[r].body, t)>>])
          /\ UNCHANGED <<nodeEnv, hits, started, in, req, hdr, err, stmt, counted, strictLog>>
       \/ StoreFails(r, "INSERT", "Failed to create user")

\* POST /api/users: the INSERT; a unique violation (23505) is caught and
\* answered 409, and the sequence value it drew is lost
createUserInsert(r) ==
    /\ At(r, "createUser.insert")
    /\ \/ /\ Issue(r, "INSERT")
          /\ nextId' = nextId + 1
          /\ IF UniqueViolation(Field(req[r].body, "email"), 0)
             THEN /\ Send(r, EmailExists)
                  /\ UNCHANGED <<users, now>>
             ELSE \E t \in ClockValues :
                  /\ now' = t
                  /\ users' = users \cup {NewRow(nextId, req[r].body, t)}
                  /\ Send(r, [Json(201, "", "User created successfully")
                                 EXCEPT !.data = <<NewRow(nextId, req[r].body, t)>>])
          /\ UNCHANGED <<nodeEnv, hits, started, in, req, hdr, err, stmt, counted, strictLog>>
       \/ StoreFails(r, "INSERT", "Failed to create user")

\* a PUT handler that looks for the email before it looks for the row
updateUserEmailFirst(r) ==
    /\ At(r, "updateUser")
    /\ \/ /\ Issue(r, "SELECT")
          /\ IF SelectByEmailNotId(Field(req[r].body, "email"), req[r].id) # {}
             THEN Send(r, EmailExistsOther)
             ELSE IF SelectById(req[r].id) = {}
             THEN Send(r, UserNotFound)
             ELSE Step(r, "updateUser.emailCheck") /\ UNCHANGED res
          /\ UNCHANGED <<storeVars, nodeEnv, hits, started, in, req, hdr, err, stmt,
                         counted, strictLog>>
       \/ StoreFails(r, "SELECT", "Failed to update user")

\* PUT /api/users/:id: the existence check
updateUser(r) ==
    /\ At(r, "updateUser")
    /\ \/ /\ Issue(r, "SELECT")
          /\ IF SelectById(req[r].id) = {}
             THEN Send(r, UserNotFound)
             ELSE Step(r, "updateUser.emailCheck") /\ UNCHANGED res
          /\ UNCHANGED <<storeVars, nodeEnv, hits, started, in, req, hdr, err, stmt,
                         counted, strictLog>>
       \/ StoreFails(r, "SELECT", "Failed to update user")

\* PUT /api/users/:id: the uniqueness check, excluding the row itself
updateUserEmailCheck(r) ==
    /\ At(r, "updateUser.emailCheck")
    /\ \/ /\ Issue(r, "SELECT")
          /\ IF SelectByEmailNotId(Field(req[r].body, "email"), req[r].id) # {}
             THEN Send(r, EmailExistsOther)
             ELSE Step(r, "updateUser.update") /\ UNCHANGED res
          /\ UNCHANGED <<storeVars, nodeEnv, hits, started, in, req, hdr, err, stmt,
                         counted, strictLog>>
       \/ StoreFails(r, "SELECT", "Failed to update user")

\* a full update that leaves updated_at alone
PutStatementNoTimestamp(b, id) ==
    [updateFields |-> [i \in 1..Len(allowedFields) |-> [col |-> allowedFields[i], param |-> i]],
     values |-> [i \in 1..Len(allowedFields) |-> Field(b, allowedFields[i])] \o <<id>>,
     paramCount |-> Len(allowedFields) + 1]

\* the statement of PUT: the six fields at $1..$6, updated_at, the id at $7
PutStatement(b, id) ==
    [updateFields |-> [i \in 1..Len(allowedFields) |-> [col |-> allowedFields[i], param |-> i]]
                      \o <<[col |-> "updated_at", param |-> 0]>>,
     values |-> [i \in 1..Len(allowedFields) |-> Field(b, allowedFields[i])] \o <<id>>,
     paramCount |-> Len(allowedFields) + 1]

\* an UPDATE on a table without the unique constraint
RunUpdateUnchecked(r, st) ==
    LET id == st.values[st.paramCount]
        target == SelectById(id)
    IN  \E t \in ClockValues :
        /\ now' = t
        /\ LET new == {Assign(u, st.updateFields, st.values, t, 1) : u \in target}
           IN  /\ users' = (users \ target) \cup new
               /\ Send(r, [Json(200, "", "User updated successfully")
                              EXCEPT !.data = OrderById(new)])

\* UPDATE ... RETURNING *: the rows RETURNING gives are sent as data
\* (rows[0], which is undefined when no row matched)
RunUpdate(r, st) ==
    LET id == st.values[st.paramCount]
        target == SelectById(id)
        email(row) == Assign(row, st.updateFields, st.values, now, 1).email
    IN  IF \E u \in target : UniqueViolation(email(u), id)
        THEN /\ Send(r, EmailExistsOther)
             /\ UNCHANGED <<users, now>>
        ELSE \E t \in ClockValues :
             /\ now' = t
             /\ LET new == {Assign(u, st.updateFields, st.values, t, 1) : u \in target}
                IN  /\ users' = (users \ target) \cup new
                    /\ Send(r, [Json(200, "", "User updated successfully")
                                   EXCEPT !.data = OrderById(new)])

updateUserUpdate(r) ==
    /\ At(r, "updateUser.update")
    /\ \/ /\ Issue(r, "UPDATE")
          /\ RunUpdate(r, PutStatement(req[r].body, req[r].id))
          /\ UNCHANGED <<nextId, nodeEnv, hits, started, in, req, hdr, err, stmt,
                         counted, strictLog>>
       \/ StoreFails(r, "UPDATE", "Failed to update user")

\* a builder that takes every key of the body
RECURSIVE BuildFromAnyKey(_, _, _)
BuildFromAnyKey(updates, i, st) ==
    IF i > Len(updates) THEN st
    ELSE BuildFromAnyKey(updates, i + 1,
                         [updateFields |-> Append(st.updateFields,
                                                  [col |-> updates[i].path[1],
                                                   param |-> st.paramCount]),
                          values |-> Append(st.values, updates[i].v),
                          paramCount |-> st.paramCount + 1])

\* the dynamic update builder of PATCH: one "col = $n" per recognized key, in
\* the order of Object.entries(updates); the id is pushed last
RECURSIVE BuildFrom(_, _, _)
BuildFrom(updates, i, st) ==
    IF i > Len(updates) THEN st
    ELSE IF Len(updates[i].path) = 1 /\ updates[i].path[1] \in AllowedSet
         THEN BuildFrom(updates, i + 1,
                        [updateFields |-> Append(st.updateFields,
                                                 [col |-> updates[i].path[1],
                                                  param |-> st.paramCount]),
                         values |-> Append(st.values, updates[i].v),
                         paramCount |-> st.paramCount + 1])
         ELSE BuildFrom(updates, i + 1, st)

\* a builder that does not push the id for the WHERE clause
BuildUpdateNoId(st, id) ==
    [st EXCEPT !.updateFields = Append(@, [col |-> "updated_at", param |-> 0])]

\* updated_at = CURRENT_TIMESTAMP is added to the assignments and the id is
\* pushed for the WHERE clause, which reads $paramCount
BuildUpdate(st, id) ==
    [st EXCEPT !.updateFields = Append(@, [col |-> "updated_at", param |-> 0]),
               !.values = Append(@, id)]

\* the builder runs in the same turn as the check before it
PatchBuild(r) ==
    LET st == BuildFrom(req[r].body, 1, [NoStmt EXCEPT !.paramCount = 1])
    IN  IF Len(st.updateFields) = 0
        THEN /\ Send(r, Json(400, "No valid fields to update",
                             "Please provide at least one valid field to update"))
             /\ UNCHANGED stmt
        ELSE /\ stmt' = [stmt EXCEPT ![r] = BuildUpdate(st, req[r].id)]
             /\ Step(r, "patchUser.update")
             /\ UNCHANGED res

\* PATCH /api/users/:id: the existence check
patchUser(r) ==
    /\ At(r, "patchUser")
    /\ \/ /\ Issue(r, "SELECT")
          /\ IF SelectById(req[r].id) = {}
             THEN Send(r, UserNotFound) /\ UNCHANGED stmt
             ELSE IF Field(req[r].body, "email") # <<>>
             THEN Step(r, "patchUser.emailCheck") /\ UNCHANGED <<res, stmt>>
             ELSE PatchBuild(r)
          /\ UNCHANGED <<storeVars, nodeEnv, hits, started, in, req, hdr, err,
                         counted, strictLog>>
       \/ StoreFails(r, "SELECT", "Failed to update user")

\* PATCH /api/users/:id: the uniqueness check, when an email is supplied
patchUserEmailCheck(r) ==
    /\ At(r, "patchUser.emailCheck")
    /\ \/ /\ Issue(r, "SELECT")
          /\ IF SelectByEmailNotId(Field(req[r].body, "email"), req[r].id) # {}
             THEN Send(r, EmailExistsOther) /\ UNCHANGED stmt
             ELSE PatchBuild(r)
          /\ UNCHANGED <<storeVars, nodeEnv, hits, started, in, req, hdr, err,
                         counted, strictLog>>
       \/ StoreFails(r, "SELECT", "Failed to update user")

patchUserUpdate(r) ==
    /\ At(r, "patchUser.update")
    /\ \/ /\ Issue(r, "UPDATE")
          /\ RunUpdate(r, stmt[r])
          /\ UNCHANGED <<nextId, nodeEnv, hits, started, in, req, hdr, err, stmt,
                         counted, strictLog>>
       \/ StoreFails(r, "UPDATE", "Failed to update user")

\* DELETE /api/users/:id: the existence check
deleteUser(r) ==
    /\ At(r, "deleteUser")
    /\ \/ /\ Issue(r, "SELECT")
          /\ IF SelectById(req[r].id) = {}
             THEN Send(r, UserNotFound)
             ELSE Step(r, "deleteUser.delete") /\ UNCHANGED res
          /\ UNCHANGED <<storeVars, nodeEnv, hits, started, in, req, hdr, err, stmt,
                         counted, strictLog>>
       \/ StoreFails(r, "SELECT", "Failed to delete user")

\* a DELETE whose statement takes effect although the handler answers 500
deleteUserDeleteThenFail(r) ==
    /\ At(r, "deleteUser.delete")
    /\ Issue(r, "DELETE")
    /\ users' = users \ SelectById(req[r].id)
    /\ \/ Send(r, Json(200, "", "User deleted successfully"))
       \/ Send(r, Json(500, "Internal server error", "Failed to delete user"))
    /\ UNCHANGED <<nextId, now, nodeEnv, hits, started, in, req, hdr, err, stmt,
                   counted, strictLog>>

\* DELETE /api/users/:id: the DELETE statement
deleteUserDelete(r) ==
    /\ At(r, "deleteUser.delete")
    /\ \/ /\ Issue(r, "DELETE")
          /\ users' = users \ SelectById(req[r].id)
          /\ Send(r, Json(200, "", "User deleted successfully"))
          /\ UNCHANGED <<nextId, now, nodeEnv, hits, started, in, req, hdr, err, stmt,
                         counted, strictLog>>
       \/ StoreFails(r, "DELETE", "Failed to delete user")

\* GET /health: {status: 'OK', timestamp, uptime}
health(r) ==
    /\ At(r, "health")
    /\ Send(r, Json(200, "", "OK"))
    /\ UNCHANGED <<storeVars, nodeEnv, hits, started, in, req, hdr, err, stmt, queries,
                   counted, strictLog>>

\* the 404 handler for every unmatched route
notFound(r) ==
    /\ At(r, "notFound")
    /\ Send(r, Json(404, "Not Found", "Cannot <method> <url>"))
    /\ UNCHANGED <<storeVars, nodeEnv, hits, started, in, req, hdr, err, stmt, queries,
                   counted, strictLog>>

\* the global error handler
errorResponse(e, env) ==
    IF e.status = 429
    THEN Json(429, "Too Many Requests", "Rate limit exceeded, please try again later")
    ELSE IF e.name = "ValidationError"
    THEN Json(400, "Validation Error", "")
    ELSE IF e.code = "ECONNREFUSED"
    THEN Json(503, "Service Unavailable", "Database connection failed")
    ELSE [Json(IF e.status # 0 THEN e.status ELSE 500,
               IF e.status = 500 THEN "Internal Server Error" ELSE e.message,
               IF env = "development" THEN e.message ELSE "Something went wrong")
            EXCEPT !.stack = (env = "development")]

errorHandler(r) ==
    /\ At(r, "errorHandler")
    /\ Send(r, errorResponse(err[r], nodeEnv))
    /\ UNCHANGED <<storeVars, nodeEnv, hits, started, in, req, hdr, err, stmt, queries,
                   counted, strictLog>>

(***************************************************************************)
(* The requests the clients send.                                          *)
(***************************************************************************)
Request(op, client, rid, clen, query, body) ==
    [op |-> op, client |-> client, rid |-> rid, clen |-> clen, query |-> query,
     body |-> body]

vName == <<"John", " ", "Doe">>
vDana == <<"Dana">>
vShort == <<"A">>
vEmailA == <<"a@x.com">>
vEmailUpper == <<"A@x.com">>
vEmailB == <<"b@x.com">>
\* an address with a '+' part that holds the word script
vEmailPlus == <<"a+scripts@x.com">>
vPhone == <<"+9725", "12345678">>
vAddress == <<"Main", " ", "St", " ", "7">>
vCity == <<"Haifa">>
vCountry == <<"Israel">>
\* '; DROP x;--
vSqli == <<"'", ";", " ", "DROP", " ", "x", ";", "--">>
\* <script>alert</script>John
vScript == <<"<script>", "alert", "</script>", "John">>
\* John <script>alert</script>Doe
vScriptMid == <<"John", " ", "<script>", "alert", "</script>", "Doe">>
\* <a href="x">John</a>
vLink == <<"<a href=\"x\">", "John", "</a>">>
\* <b>John</b> & Doe
vAmp == <<"<b>", "John", "</b>", " ", "&", " ", "Doe">>

FullBody(name, email) ==
    <<Leaf("name", name), Leaf("email", email), Leaf("phone", vPhone),
      Leaf("address", vAddress), Leaf("city", vCity), Leaf("country", vCountry)>>

SmallLen == 200
OverJsonLimit == JsonLimit + 1
OverMaxSize == MaxSize + 1

\* the requests of Spec: every route, every stage's rejection
PipelineInputs ==
    {Request("health", "ip1", "", 0, <<>>, <<>>),
     Request("health", "ip1", "", 0, <<Leaf("q", vSqli)>>, <<>>),
     Request("list", "ip1", "", 0, <<>>, <<>>),
     Request("get", "ip1", "1", 0, <<Leaf("test", vSqli), Leaf("test", vDana)>>, <<>>),
     Request("get", "ip1", "abc", 0, <<>>, <<>>),
     Request("get", "ip1", "1' OR 1=1 --", 0, <<>>, <<>>),
     Request("create", "ip1", "", SmallLen, <<>>, FullBody(vName, vEmailA)),
     Request("create", "ip1", "", SmallLen, <<>>, FullBody(vSqli, vEmailA)),
     Request("create", "ip1", "", SmallLen, <<>>, FullBody(vLink, vEmailA)),
     Request("create", "ip1", "", SmallLen, <<>>, FullBody(vScript, vEmailA)),
     Request("create", "ip1", "", SmallLen, <<>>, FullBody(vScriptMid, vEmailB)),
     Request("create", "ip1", "", SmallLen, <<>>, FullBody(vName, vEmailUpper)),
     Request("create", "ip1", "", SmallLen, <<>>, FullBody(vAmp, vEmailB)),
     Request("create", "ip1", "", SmallLen, <<>>, FullBody(vShort, vEmailB)),
     Request("create", "ip1", "", SmallLen, <<>>, FullBody(vShort, vDana)),
     Request("put", "ip1", "1", SmallLen, <<>>, FullBody(vShort, vDana)),
     Request("patch", "ip1", "1", SmallLen, <<>>,
             <<Leaf("email", vDana), Leaf("city", vShort)>>),
     Request("create", "ip1", "", SmallLen, <<>>,
             FullBody(vName, vEmailB) \o <<Leaf("$where", vSqli)>>),
     Request("create", "ip1", "", OverJsonLimit, <<>>, FullBody(vName, vEmailB)),
     Request("create", "ip1", "", OverMaxSize, <<>>, FullBody(vSqli, vEmailB)),
     Request("put", "ip1", "1", SmallLen, <<>>, FullBody(vDana, vEmailUpper)),
     Request("patch", "ip1", "1", SmallLen, <<>>, <<>>),
     Request("patch", "ip1", "1", SmallLen, <<>>,
             <<Leaf("invalidField", vDana), NumLeaf("id", "999")>>),
     Request("patch", "ip1", "1", SmallLen, <<>>,
             <<NumLeaf("id", "999"), Leaf("city", vCity), Leaf("name", vDana)>>),
     Request("patch", "ip1", "1", SmallLen, <<>>, <<Leaf("email", vEmailB)>>),
     Request("delete", "ip1", "1", 0, <<>>, <<>>),
     Request("delete", "ip1", "0", 0, <<>>, <<>>),
     Request("put", "ip1", "-1", SmallLen, <<>>, FullBody(vDana, vEmailB)),
     Request("put", "ip1", "2", SmallLen, <<>>, FullBody(vDana, vEmailA)),
     Request("patch", "ip1", "2", SmallLen, <<>>, <<Leaf("email", vEmailA)>>),
     Request("patch", "ip1", "2147483648", SmallLen, <<>>, <<Leaf("name", vDana)>>),
     Request("patch", "ip1", "1", SmallLen, <<>>, <<Leaf("email", vEmailPlus)>>),
     Request("unmatchedApi", "ip1", "", 0, <<>>, <<>>),
     Request("unmatched", "ip1", "", 0, <<>>, <<>>),
     Request("options", "ip1", "", 0, <<>>, <<>>)}

\* the requests of SpecStore: the writes each connection carries, which meet
\* in the table
StoreInputs(r) ==
    IF r = "r1"
    THEN {Request("create", "ip1", "", SmallLen, <<>>, FullBody(vName, vEmailA)),
          Request("put", "ip1", "1", SmallLen, <<>>,
                  FullBody(vDana, vEmailB) \o <<NumLeaf("id", "2"), NumLeaf("created_at", "3")>>),
          Request("patch", "ip1", "1", SmallLen, <<>>,
                  <<Leaf("email", vEmailB), NumLeaf("id", "999"), Leaf("name", vDana)>>),
          Request("patch", "ip1", "2", SmallLen, <<>>,
                  <<Leaf("created_at", vDana), Leaf("city", vDana)>>),
          Request("delete", "ip1", "1", 0, <<>>, <<>>)}
    ELSE {Request("create", "ip2", "", SmallLen, <<>>, FullBody(vDana, vEmailUpper)),
          Request("create", "ip2", "", SmallLen, <<>>,
                  FullBody(vDana, vEmailB) \o <<NumLeaf("id", "2"), NumLeaf("created_at", "3")>>),
          Request("delete", "ip2", "1", 0, <<>>, <<>>)}

\* the requests of SpecQuota: sensitive and other operations of one client
\* on both connections, and a sensitive operation of a second client; the
\* table stays empty
QuotaInputs(r) ==
    IF r = "r1"
    THEN {Request("create", "ip1", "", SmallLen, <<>>, FullBody(vShort, vEmailA)),
          Request("patch", "ip1", "1", SmallLen, <<>>, <<Leaf("email", vEmailB)>>),
          Request("delete", "ip1", "1", 0, <<>>, <<>>),
          Request("list", "ip1", "", 0, <<>>, <<>>),
          Request("get", "ip1", "1", 0, <<>>, <<>>)}
    ELSE {Request("put", "ip1", "1", SmallLen, <<>>, FullBody(vDana, vEmailB)),
          Request("delete", "ip2", "0", 0, <<>>, <<>>),
          Request("health", "ip1", "", 0, <<>>, <<>>)}

\* the requests of SpecGeneral: one client sends more requests than the
\* General limiter admits in a window, some to a route with every limiter
\* (a create the validator refuses) and some to a path no route matches
GeneralInputs ==
    {Request("create", "ip1", "", SmallLen, <<>>, FullBody(vShort, vEmailA)),
     Request("unmatched", "ip1", "", 0, <<>>, <<>>)}

(***************************************************************************)
(* Next-state relations.                                                   *)
(***************************************************************************)
AppStages(r) ==
    \/ securityHeaders(r)
    \/ helmet(r)
    \/ cors(r)
    \/ requestSizeLimiter(r)
    \/ json(r)
    \/ urlencoded(r)
    \/ hpp(r)
    \/ mongoSanitizeStage(r)
    \/ xssProtection(r)
    \/ sqlInjectionProtection(r)
    \/ generalLimiter(r)
    \/ apiLimiter(r)

WriteRoutes(r) ==
    \/ strictLimiter(r)
    \/ validateIdStage(r)
    \/ validateUserStage(r)
    \/ validateUserUpdateStage(r)
    \/ createUser(r)
    \/ createUserInsert(r)
    \/ updateUser(r)
    \/ updateUserEmailCheck(r)
    \/ updateUserUpdate(r)
    \/ patchUser(r)
    \/ patchUserEmailCheck(r)
    \/ patchUserUpdate(r)
    \/ deleteUser(r)
    \/ deleteUserDelete(r)

\* every route, the requests of one connection one after the other
Next ==
    \E r \in {"r1"} :
        \/ Begin(r, PipelineInputs, MaxReqs)
        \/ AppStages(r)
        \/ WriteRoutes(r)
        \/ listUsers(r)
        \/ getUser(r)
        \/ health(r)
        \/ notFound(r)
        \/ errorHandler(r)

Spec == Init /\ [][Next]_vars

\* the writing routes, the requests of two connections interleaved
NextStore ==
    \E r \in Slots :
        \/ Begin(r, StoreInputs(r), MaxStoreReqs)
        \/ AppStages(r)
        \/ WriteRoutes(r)

\* the process runs in production mode
InitProduction == Init /\ nodeEnv = "production"

SpecStore == InitProduction /\ [][NextStore]_vars

\* the limiters, the requests of two connections interleaved
NextQuota ==
    \E r \in Slots :
        \/ Begin(r, QuotaInputs(r), MaxQuotaReqs)
        \/ AppStages(r)
        \/ strictLimiter(r)
        \/ validateIdStage(r)
        \/ validateUserStage(r)
        \/ validateUserUpdateStage(r)
        \/ updateUser(r)
        \/ patchUser(r)
        \/ deleteUser(r)
        \/ listUsers(r)
        \/ getUser(r)
        \/ health(r)

SpecQuota == InitProduction /\ [][NextQuota]_vars

\* one client exhausting the General limiter, its requests one after the other
NextGeneral ==
    \E r \in {"r1"} :
        \/ Begin(r, GeneralInputs, MaxGeneralReqs)
        \/ AppStages(r)
        \/ strictLimiter(r)
        \/ validateUserStage(r)
        \/ notFound(r)

SpecGeneral == InitProduction /\ [][NextGeneral]_vars

(***************************************************************************)
(* Properties of the service.                                              *)
(***************************************************************************)
Last(s) == s[Len(s)]
Finished(r) == pc[r] = "done"
StageRan(r, stage) == \E i \in 1..Len(trace[r]) : trace[r][i] = stage

HandlerSteps ==
    {"listUsers", "getUser", "createUser", "createUser.insert", "updateUser",
     "updateUser.emailCheck", "updateUser.update", "patchUser", "patchUser.emailCheck",
     "patchUser.update", "deleteUser", "deleteUser.delete"}
Mutating == {"create", "put", "patch", "delete"}
UnderApiUsers == Mutating \cup {"list", "get", "unmatchedApi"}
Whitelist == {"name", "email", "phone", "address", "city", "country"}
Columns == Whitelist \cup {"id", "created_at", "updated_at"}

\* some string leaf of obj matches an injection pattern
SomeLeafMatches(obj) == \E i \in 1..Len(obj) : obj[i].isStr /\ detectSQLInjection(obj[i].v)

\* the place of a stage in the order the specification lists; 0 for a stage
\* it does not list
StageRank(stage) ==
    CASE stage = "securityHeaders" -> 1
      [] stage = "requestSizeLimiter" -> 2
      [] stage = "json" -> 3
      [] stage = "hpp" -> 4
      [] stage = "mongoSanitize" -> 5
      [] stage = "xssProtection" -> 6
      [] stage = "sqlInjectionProtection" -> 7
      [] stage = "generalLimiter" -> 8
      [] stage = "apiLimiter" -> 9
      [] stage = "strictLimiter" -> 10
      [] stage = "validateId" -> 11
      [] stage \in {"validateUser", "validateUserUpdate"} -> 12
      [] stage \in HandlerSteps -> 13
      [] OTHER -> 0

\* the stages the specification puts before the handler of a route
StagesBefore(op) ==
    {"securityHeaders", "requestSizeLimiter", "json", "hpp", "mongoSanitize",
     "xssProtection", "sqlInjectionProtection", "generalLimiter", "apiLimiter"}
    \cup (IF op \in Mutating THEN {"strictLimiter"} ELSE {})
    \cup (IF op \in {"get", "put", "patch", "delete"} THEN {"validateId"} ELSE {})
    \cup (IF op \in {"create", "put"} THEN {"validateUser"} ELSE {})
    \cup (IF op = "patch" THEN {"validateUserUpdate"} ELSE {})

\* C1: the stages of a request run in the one order the specification lists
\* (Header Hardener, Size Guard, body parsing, Parameter Normalizer, Key
\* Sanitizer, Content Sanitizer, Injection Pattern Detector, General, Resource-API
\* and Sensitive limiters, id and field validators, handler); a handler step or
\* a store statement happens only after every stage before the handler has
\* run, and a request that has been answered is at none of the stages.
C1_FixedStageOrder ==
    \A r \in Slots :
        LET t == trace[r]
        IN  /\ \A i, j \in 1..Len(t) :
                   (i < j /\ StageRank(t[i]) > 0 /\ StageRank(t[j]) > 0)
                   => \/ StageRank(t[i]) < StageRank(t[j])
                      \/ (t[i] \in HandlerSteps /\ t[j] \in HandlerSteps)
            /\ \A i \in 1..Len(t) :
                   t[i] \in HandlerSteps
                   => \A s \in StagesBefore(in[r].op) : \E j \in 1..(i - 1) : t[j] = s
            /\ queries[r] # <<>> => \E i \in 1..Len(t) : t[i] \in HandlerSteps
            /\ res[r].status # 0 => pc[r] = "done"

\* a create that went through every stage and was answered by its handler
C1_Witness ==
    \E r \in Slots :
        /\ Finished(r) /\ in[r].op = "create" /\ res[r].status = 201
        /\ Last(trace[r]) = "createUser.insert"

\* C2 as amended: a request that reaches the Injection Pattern Detector with a
\* string leaf of its body or query, as the stages before the detector left
\* them, matching an injection pattern is answered 400 'Potential SQL
\* injection detected' there and has sent nothing to the store; one without
\* such a leaf is passed on.
C2_DetectorRejectsWhatItReads ==
    \A r \in Slots :
        (trace[r] # <<>> /\ Last(trace[r]) = "sqlInjectionProtection")
        => IF SomeLeafMatches(req[r].body) \/ SomeLeafMatches(req[r].query)
           THEN /\ Finished(r)
                /\ res[r].status = 400
                /\ res[r].error = "Potential SQL injection detected"
                /\ queries[r] = <<>>
           ELSE ~Finished(r) /\ res[r].status = 0

\* a request the detector answered because of a leaf of its query
C2_Witness ==
    \E r \in Slots :
        /\ Finished(r) /\ Last(trace[r]) = "sqlInjectionProtection"
        /\ res[r].status = 400
        /\ ~SomeLeafMatches(req[r].body) /\ SomeLeafMatches(req[r].query)

\* C2 as the specification states it: every request (of a size the body
\* parser accepts) with a string leaf of the body or query, as sent, matching
\* an injection pattern is answered 400 'Potential SQL injection detected'
\* and sends nothing to the store.
C2_EveryMatchRejected ==
    \A r \in Slots :
        (/\ Finished(r)
         /\ in[r].clen <= JsonLimit
         /\ SomeLeafMatches(in[r].body) \/ SomeLeafMatches(in[r].query))
        => /\ res[r].status = 400
           /\ res[r].error = "Potential SQL injection detected"
           /\ queries[r] = <<>>

\* C3: of the requests of one client that reach the Sensitive limiter in a
\* window, exactly the first 5 are let through; the 6th and every later one
\* is answered 429 with remaining 0 before any validator or handler ran and
\* has sent nothing to the store.
C3_FirstFiveAdmitted ==
    /\ \A c \in Clients : \A i \in 1..Len(strictLog[c]) : strictLog[c][i] = (i <= 5)
    /\ \A r \in Slots :
           (trace[r] # <<>> /\ Last(trace[r]) = "strictLimiter")
           => IF Len(strictLog[in[r].client]) > 5
              THEN /\ Finished(r)
                   /\ res[r].status = 429
                   /\ hdr[r].remaining = 0
                   /\ queries[r] = <<>>
              ELSE ~Finished(r) /\ res[r].status = 0
    /\ \A r \in Slots :
           (\E i \in 1..Len(trace[r]) :
                trace[r][i] \in HandlerSteps
                                \cup {"validateId", "validateUser", "validateUserUpdate"})
           => (in[r].op \in Mutating
               => /\ StageRan(r, "strictLimiter")
                  /\ res[r].status # 429)

\* the sixth sensitive request of a client is refused while an admitted
\* request of the same client is still waiting for the store, and the other
\* client has used the limiter too
C3_Witness ==
    \E r \in Slots :
        /\ Finished(r) /\ res[r].status = 429 /\ Last(trace[r]) = "strictLimiter"
        /\ Len(strictLog[in[r].client]) = 6
        /\ \E s \in Slots \ {r} : in[s].client = in[r].client /\ pc[s] \in HandlerSteps
        /\ \E c \in Clients \ {in[r].client} : Len(strictLog[c]) > 0

\* the limiters that apply to a route
Applicable(op) ==
    {"general"} \cup (IF op \in UnderApiUsers THEN {"api"} ELSE {})
                \cup (IF op \in Mutating THEN {"strict"} ELSE {})

\* C4 as the specification states it: a request answered 400, 404, 409 or 413
\* has been counted by every limiter that applies to its route.
C4_EveryOutcomeCounted ==
    \A r \in Slots :
        (Finished(r) /\ res[r].status \in {400, 404, 409, 413})
        => Applicable(in[r].op) \subseteq counted[r]

\* C5 as the specification states it: a GET /health request is counted by no
\* limiter, is never answered 400 or 429, and is answered 200.
C5_HealthBypasses ==
    \A r \in Slots :
        in[r].op = "health"
        => /\ counted[r] = {}
           /\ res[r].status \notin {400, 429}
           /\ Finished(r) => res[r].status = 200

\* no two rows hold the same email (nor the same id)
EmailsDistinct ==
    \A u, w \in users : (u.email = w.email \/ u.id = w.id) => u = w

\* the write request r is about to send would give two rows the same email
WouldBreak(r) ==
    LET email == Field(req[r].body, "email")
    IN  CASE pc[r] = "createUser.insert" -> SelectByEmail(email) # {}
          [] pc[r] = "updateUser.update" ->
                SelectById(req[r].id) # {} /\ SelectByEmailNotId(email, req[r].id) # {}
          [] pc[r] = "patchUser.update" ->
                /\ SelectById(req[r].id) # {}
                /\ HasField(req[r].body, "email")
                /\ SelectByEmailNotId(email, req[r].id) # {}
          [] OTHER -> FALSE

ConflictChangesNothing ==
    \A r \in Slots :
        /\ (pc[r] # "done" /\ pc'[r] = "done" /\ WouldBreak(r))
           => /\ users' = users
              /\ \/ res'[r].status = 409
                 \/ res'[r].status = 500 /\ UNCHANGED storeVars
        /\ (pc[r] # "done" /\ pc'[r] = "done" /\ res'[r].status = 409) => users' = users

\* C6: in every state no two rows of the table hold the same email; a write
\* that would give two rows the same email is answered 409 (unless the store
\* call itself fails) and every conflict answer leaves the table as it was.
C6_EmailUnique == []EmailsDistinct /\ [][ConflictChangesNothing]_vars

\* an update refused by the store's constraint after it passed the pre-check
C6_Witness ==
    \E r \in Slots :
        /\ Finished(r) /\ res[r].status = 409
        /\ Last(trace[r]) \in {"updateUser.update", "patchUser.update"}
        /\ Cardinality(users) = 2

CreateAnswered ==
    \A r \in Slots :
        (pc[r] \in {"createUser", "createUser.insert"} /\ pc'[r] = "done")
        => LET email == Field(req[r].body, "email")
           IN  \/ res'[r].status = 500 /\ UNCHANGED storeVars
               \/ /\ SelectByEmail(email) # {}
                  /\ res'[r] = Json(409, "Email already exists",
                                    "A user with this email address already exists")
                  /\ users' = users
               \/ /\ SelectByEmail(email) = {}
                  /\ pc[r] = "createUser.insert"
                  /\ res'[r].status = 201
                  /\ \E u \in users' : u.email = email /\ users' = users \cup {u}

\* C7: a create whose email a row already holds is answered 409 'Email already
\* exists' with one and the same body, whether the uniqueness pre-check or the
\* INSERT refused by the store's constraint finds it, and inserts nothing; a
\* create whose email no row holds inserts one row and is answered 201.  So
\* of two creates with one email exactly one is answered 201.
C7_SameConflictEitherWay == [][CreateAnswered]_vars

\* two creates with one email both passed the pre-check; the INSERT of the
\* second was refused
C7_Witness ==
    \E r \in Slots :
        /\ Finished(r) /\ in[r].op = "create" /\ res[r].status = 409
        /\ Last(trace[r]) = "createUser.insert"
        /\ \E s \in Slots \ {r} : Finished(s) /\ in[s].op = "create" /\ res[s].status = 201

BodyKeys(obj) == {obj[i].path[1] : i \in 1..Len(obj)}
AssignedColumns(st) == {st.updateFields[i].col : i \in 1..Len(st.updateFields)}

PatchStatementColumns ==
    \A r \in Slots :
        (in[r].op = "patch" /\ stmt[r] # NoStmt)
        => AssignedColumns(stmt[r])
              = (BodyKeys(req[r].body) \cap Whitelist) \cup {"updated_at"}

PatchFrame ==
    \A r \in Slots :
        LET supplied == BodyKeys(req[r].body) \cap Whitelist
        IN  (in[r].op = "patch" /\ pc[r] \in HandlerSteps /\ pc'[r] # pc[r])
            => IF pc[r] = "patchUser.update" /\ res'[r].status = 200
               THEN /\ Cardinality(users') = Cardinality(users)
                    /\ \A u \in users :
                           IF u.id # req[r].id THEN u \in users'
                           ELSE \E w \in users' :
                                  /\ w.id = u.id
                                  /\ \A c \in Columns \ (supplied \cup {"updated_at"}) :
                                         w[c] = u[c]
                                  /\ \A c \in supplied : w[c] = Field(req[r].body, c)
                                  /\ w.updated_at = now'
               ELSE users' = users

\* C8: the UPDATE that PATCH builds assigns exactly the keys of the body that
\* are in the whitelist (name, email, phone, address, city, country) and
\* updated_at; running it leaves every other column of the target row and
\* every other row as they were, and a PATCH that does not run it changes
\* nothing.
C8_PatchAssignsWhitelistOnly == []PatchStatementColumns /\ [][PatchFrame]_vars

\* a PATCH with a key outside the whitelist updated one of two rows
C8_Witness ==
    \E r \in Slots :
        /\ Finished(r) /\ in[r].op = "patch" /\ res[r].status = 200
        /\ BodyKeys(req[r].body) \ Whitelist # {}
        /\ Cardinality(users) = 2

\* C9: for a PATCH body with k recognized keys (k >= 1) the i-th assignment
\* binds the i-th recognized key of the body to $i and values[i] is its
\* value; values has k + 1 elements, the last is the route id, and the WHERE
\* clause reads $(k + 1).
C9_PlaceholdersInKeyOrder ==
    \A r \in Slots :
        (in[r].op = "patch" /\ stmt[r] # NoStmt)
        => LET Recognized(l) == l.path[1] \in Whitelist
               rec == SelectSeq(req[r].body, Recognized)
               k == Len(rec)
               st == stmt[r]
           IN  /\ k >= 1
               /\ Len(st.updateFields) = k + 1
               /\ Len(st.values) = k + 1
               /\ st.paramCount = k + 1
               /\ \A i \in 1..k :
                      /\ st.updateFields[i] = [col |-> rec[i].path[1], param |-> i]
                      /\ st.values[i] = rec[i].v
               /\ st.values[k + 1] = req[r].id

\* a PATCH with two recognized keys and one unrecognized between them ran
C9_Witness ==
    \E r \in Slots :
        /\ Finished(r) /\ in[r].op = "patch" /\ res[r].status = 200
        /\ Len(stmt[r].values) = 3
        /\ Len(req[r].body) = 3

\* C10 as the specification states it: a PATCH on a valid id whose body has
\* no key of the whitelist is answered 400 'No valid fields to update' and
\* sends no UPDATE.
C10_NoValidFields ==
    \A r \in Slots :
        (/\ Finished(r) /\ in[r].op = "patch"
         /\ StageRan(r, "validateUserUpdate")
         /\ BodyKeys(in[r].body) \cap Whitelist = {})
        => /\ res[r].status = 400
           /\ res[r].error = "No valid fields to update"
           /\ \A i \in 1..Len(queries[r]) : queries[r][i] # "UPDATE"

\* the ids that are no integer in 1..2147483647
InvalidIds == {"0", "-1", "abc", "2147483648", "1' OR 1=1 --"}

\* C11: a GET, PUT, PATCH or DELETE on /api/users/:id whose id is not an
\* integer in 1..2147483647 sends nothing to the store, and when it reaches
\* the id validator it is answered 400 there.
C11_InvalidIdRejected ==
    \A r \in Slots :
        (in[r].op \in {"get", "put", "patch", "delete"} /\ in[r].rid \in InvalidIds)
        => /\ queries[r] = <<>>
           /\ \A i \in 1..Len(trace[r]) : trace[r][i] \notin HandlerSteps
           /\ StageRan(r, "validateId")
              => (Finished(r) /\ res[r].status = 400 /\ Last(trace[r]) = "validateId")

\* a PATCH with an id above the store's integer range was answered 400
C11_Witness ==
    \E r \in Slots :
        /\ Finished(r) /\ in[r].op = "patch" /\ in[r].rid = "2147483648"
        /\ res[r].status = 400 /\ Last(trace[r]) = "validateId"

WriteSteps == {"createUser.insert", "updateUser.update", "patchUser.update",
               "deleteUser.delete"}

\* a create answered 201 inserts one row under the next id, holding in field f
\* what `kept` says the request carries for f, and answers with that row
CreateStores(r, kept(_)) ==
    (pc[r] = "createUser.insert" /\ pc'[r] = "done" /\ res'[r].status = 201)
    => \E u \in users' \ users :
          /\ users' = users \cup {u}
          /\ u.id = nextId
          /\ \A f \in AllowedSet : u[f] = Field(kept(r), f)
          /\ u.created_at = now' /\ u.updated_at = now'
          /\ res'[r].data = <<u>>

\* a get answered 200 returns the row the table holds under the id, unchanged
GetReturnsRow(r) ==
    (pc[r] = "getUser" /\ pc'[r] = "done" /\ res'[r].status = 200)
    => /\ users' = users
       /\ \E u \in users : u.id = toInt(in[r].rid) /\ res'[r].data = <<u>>

\* the table changes in the write steps of the handlers only
OnlyWritesChange == users' # users => \E r \in Slots : pc[r] \in WriteSteps

SentByClient(r) == in[r].body

\* C12: a create answered 201 stores, and answers with, a record whose six
\* fields equal the values the client sent, under the id and the timestamps
\* the store assigned; a following get-by-id returns that record.
C12_EqualToValuesSent ==
    [][/\ \A r \in Slots : CreateStores(r, SentByClient) /\ GetReturnsRow(r)
       /\ OnlyWritesChange]_vars

\* a PUT answered 200 while the row exists replaces it by a row with the same
\* id and created_at, the six fields of the request, and updated_at at the
\* store's time, which `later` compares with the value before; the answer
\* carries the new row
PutOverwrites(r, later(_, _)) ==
    (/\ pc[r] = "updateUser.update" /\ pc'[r] = "done" /\ res'[r].status = 200
     /\ SelectById(req[r].id) # {})
    => \E old \in users, new \in users' :
          /\ old.id = req[r].id
          /\ users' = (users \ {old}) \cup {new}
          /\ new.id = old.id /\ new.created_at = old.created_at
          /\ \A f \in AllowedSet : new[f] = Field(req[r].body, f)
          /\ new.updated_at = now' /\ later(new.updated_at, old.updated_at)
          /\ res'[r].data = <<new>>

NotBefore(t, before) == t >= before
After(t, before) == t > before

IdAndCreatedAtKept ==
    \A u \in users' :
        \/ \E old \in users : old.id = u.id /\ old.created_at = u.created_at
        \/ /\ u.id = nextId /\ u.created_at = now'
           /\ \E r \in Slots : pc[r] = "createUser.insert" /\ pc'[r] = "done"

\* one row per id, each id drawn from the sequence
IdsFromSequence ==
    \A u \in users : u.id \in 1..(nextId - 1) /\ \A w \in users : w.id = u.id => w = u

\* C14: a live record's id and created_at are the values the store assigned
\* when it was created; no create, full update or partial update, whatever
\* keys its body carries (id and created_at included), supplies or changes
\* them.
C14_IdAndCreatedAtImmutable == []IdsFromSequence /\ [][IdAndCreatedAtKept]_vars

\* a create, a full update and a partial update whose bodies carried an id
\* were answered 201 and 200, and the row they wrote is live
C14_Witness ==
    /\ \E u \in users : u.id = 1 /\ u.updated_at > u.created_at
    /\ \E r \in Slots : /\ Finished(r) /\ in[r].op \in {"put", "patch"}
                        /\ HasField(in[r].body, "id") /\ res[r].status = 200
    /\ \E r \in Slots : /\ Finished(r) /\ in[r].op = "create"
                        /\ HasField(in[r].body, "id") /\ res[r].status = 201

\* the failures the top-level error handler has no branch of its own for
Unclassified(e) == e.status # 429 /\ e.name # "ValidationError" /\ e.code # "ECONNREFUSED"

\* C15: outside development mode, the top-level error handler answers an
\* unclassified failure with status 500 and a body that holds neither the
\* error's stack nor the error's own message text.
C15_ProductionHidesFailure ==
    \A r \in Slots :
        (/\ Finished(r) /\ Last(trace[r]) = "errorHandler"
         /\ nodeEnv # "development" /\ Unclassified(err[r]))
        => /\ res[r].status = 500
           /\ ~res[r].stack
           /\ res[r].error # err[r].message
           /\ res[r].message # err[r].message

\* C16: the response to a request that passed through limiters carries the
\* quota metadata (limit, remaining) of every limiter that counted it.
C16_QuotaOfEveryLimiter ==
    \A r \in Slots :
        Finished(r)
        => \A l \in counted[r] :
              /\ hdr[r].limit = LimiterMax(l)
              /\ hdr[r].remaining = Remaining(l, hits[l][in[r].client])

\* C17: every response, whichever stage produces it, carries the security
\* headers with the values the Header Hardener sets, and no X-Powered-By.
C17_HardenerHeadersOnEveryResponse ==
    \A r \in Slots :
        Finished(r)
        => /\ {<<"X-Content-Type-Options", "nosniff">>,
               <<"X-Frame-Options", "DENY">>,
               <<"Referrer-Policy", "strict-origin-when-cross-origin">>,
               <<"Permissions-Policy", "geolocation=(), microphone=(), camera=()">>}
              \subseteq hdr[r].sec
           /\ \A p \in hdr[r].sec : p[1] # "X-Powered-By"

Validators == {"validateUser", "validateUserUpdate"}

\* the errors the rule of field f raises on the body as it reaches the
\* validator of request r; a partial update skips the fields it does not carry
FieldErrors(r, f) ==
    LET b == sanitizeObject(mongoSanitize(in[r].body))
        full == in[r].op \in {"create", "put"}
    IN  IF full \/ HasField(b, f) THEN FieldRule(f, Field(b, f), full).errors ELSE <<>>

FailingFields(r) == {f \in AllowedSet : FieldErrors(r, f) # <<>>}

\* C18: when fields of a create, full-update or partial-update body fail
\* their rules, the validator answers 400 'Validation failed' once, its
\* details list every failing field with name, message and rejected value,
\* and the handler is not run.
C18_EveryFailingFieldListed ==
    \A r \in Slots :
        ((\E v \in Validators : StageRan(r, v)) /\ FailingFields(r) # {})
        => /\ Finished(r) /\ Last(trace[r]) \in Validators
           /\ res[r].status = 400 /\ res[r].error = "Validation failed"
           /\ \A f \in FailingFields(r) : \A j \in 1..Len(FieldErrors(r, f)) :
                 /\ FieldErrors(r, f)[j].field = f
                 /\ \E i \in 1..Len(res[r].details) :
                       res[r].details[i] = FieldErrors(r, f)[j]
           /\ queries[r] = <<>>
           /\ \A i \in 1..Len(trace[r]) : trace[r][i] \notin HandlerSteps

\* a partial update with two failing fields was answered with both
C18_Witness ==
    \E r \in Slots :
        /\ Finished(r) /\ in[r].op = "patch" /\ res[r].status = 400
        /\ Cardinality(FailingFields(r)) = 2
        /\ \E i, j \in 1..Len(res[r].details) :
              res[r].details[i].field = "email" /\ res[r].details[j].field = "city"

\* the texts of the program that contain 'Rate limit exceeded'
RateLimitExceededTexts == {"Rate limit exceeded, please try again later"}

\* C19: a request the Sensitive limiter refuses is answered 429 with error
\* 'Too Many Requests' and a message containing 'Rate limit exceeded'.
C19_TooManyRequestsBody ==
    \A r \in Slots :
        (Finished(r) /\ Last(trace[r]) = "strictLimiter")
        => /\ res[r].status = 429
           /\ res[r].error = "Too Many Requests"
           /\ res[r].message \in RateLimitExceededTexts

ScriptToks == {"<script>", "</script>"}
HasScriptElement(s) ==
    \E i, j \in 1..Len(s) : i < j /\ s[i] = "<script>" /\ s[j] = "</script>"

\* the positions of s that lie outside every script element and hold a word
PlainWords(s) ==
    {i \in 1..Len(s) :
        /\ s[i] \in WordToks
        /\ ~\E a, b \in 1..Len(s) :
               a < i /\ i < b /\ s[a] = "<script>" /\ s[b] = "</script>"
               /\ \A n \in (a + 1)..(i - 1) : s[n] # "</script>"}

\* a create answered 201 whose field f was sent with a script element has
\* stored the field without script tags and with every word around the element
ScriptStripped(r) ==
    (pc[r] = "createUser.insert" /\ pc'[r] = "done" /\ res'[r].status = 201)
    => \A f \in AllowedSet :
          LET sent == Field(in[r].body, f)
          IN  HasScriptElement(sent)
              => \E u \in users' \ users :
                    /\ \A j \in 1..Len(u[f]) : u[f][j] \notin ScriptToks
                    /\ \A i \in PlainWords(sent) : \E j \in 1..Len(u[f]) : u[f][j] = sent[i]

IsPrefix(a, b) == Len(a) <= Len(b) /\ \A i \in 1..Len(a) : a[i] = b[i]

\* the statements a PUT or PATCH sends when nothing stops it: the existence
\* check, the uniqueness check (a PATCH without email has none), the UPDATE
UpdateStatements(r) ==
    IF in[r].op = "put" \/ Field(req[r].body, "email") # <<>>
    THEN <<"SELECT", "SELECT", "UPDATE">>
    ELSE <<"SELECT", "UPDATE">>

\* validation before any statement, and the statements in their order
ChecksInOrder ==
    \A r \in Slots :
        in[r].op \in {"put", "patch"}
        => /\ queries[r] # <<>>
              => /\ StageRan(r, "validateId")
                 /\ StageRan(r, "validateUser") \/ StageRan(r, "validateUserUpdate")
                 /\ FailingFields(r) = {} /\ in[r].rid \notin InvalidIds
           /\ IsPrefix(queries[r], UpdateStatements(r))

\* the existence check answers 404 when the row is missing, whatever the
\* email; only the uniqueness check after it answers 409 at a SELECT
ExistenceBeforeUniqueness ==
    \A r \in Slots :
        /\ (pc[r] \in {"updateUser", "patchUser"} /\ pc'[r] = "done" /\ res'[r].status # 500)
           => /\ SelectById(req[r].id) = {} /\ res'[r] = UserNotFound
              /\ users' = users
        /\ (pc[r] \in {"updateUser", "patchUser"} /\ pc'[r] # "done" /\ pc'[r] # pc[r])
           => SelectById(req[r].id) # {}
        /\ (pc[r] \in {"updateUser.emailCheck", "patchUser.emailCheck"} /\ pc'[r] = "done"
            /\ res'[r].status # 500)
           => /\ SelectByEmailNotId(Field(req[r].body, "email"), req[r].id) # {}
              /\ res'[r] = EmailExistsOther
              /\ users' = users

\* C21: PUT and PATCH check in the order validation, existence, uniqueness,
\* persist: an invalid request is answered 400 before any statement, a valid
\* request for a missing id is answered 404 even when its email belongs to
\* another record, and the UPDATE is sent only after the checks passed.
C21_ChecksInOrder == []ChecksInOrder /\ [][ExistenceBeforeUniqueness]_vars

\* a valid PUT for a missing id, with the email of a live record, was
\* answered 404
C21_Witness ==
    \E r \in Slots :
        /\ Finished(r) /\ in[r].op = "put" /\ res[r].status = 404
        /\ queries[r] = <<"SELECT">>
        /\ \E u \in users : u.email = Field(req[r].body, "email") /\ u.id # req[r].id

\* the characters of a route parameter, as the detector's patterns read them
ParamToks(rid) ==
    CASE rid = "1' OR 1=1 --" -> <<"1", "'", " ", "OR", " ", "1", "=", "1", " ", "--">>
      [] rid = "-1" -> <<"-", "1">>
      [] OTHER -> <<rid>>

WithIdParam == {"get", "put", "patch", "delete"}

\* the body and the query as the stages before the detector leave them
BodyAtDetector(r) == sanitizeObject(mongoSanitize(in[r].body))
QueryAtDetector(r) == sanitizeObject(mongoSanitize(hppQuery(in[r].query)))

RejectedAt(r, path) ==
    /\ Finished(r) /\ Last(trace[r]) = "sqlInjectionProtection"
    /\ res[r].status = 400 /\ res[r].error = "Potential SQL injection detected"
    /\ res[r].field = path

\* C22: the detector scans the body, then the query, then the route
\* parameters; at the first matching string leaf it answers 400 naming that
\* leaf's path and does not pass the request on; it passes the request on
\* only when no leaf of the three sources matches.
C22_BodyQueryParamsScanned ==
    \A r \in Slots :
        StageRan(r, "sqlInjectionProtection")
        => LET b == checkObject(BodyAtDetector(r))
               q == checkObject(QueryAtDetector(r))
               p == in[r].op \in WithIdParam /\ detectSQLInjection(ParamToks(in[r].rid))
           IN  IF b # 0 THEN RejectedAt(r, BodyAtDetector(r)[b].path)
               ELSE IF q # 0 THEN RejectedAt(r, QueryAtDetector(r)[q].path)
               ELSE IF p THEN RejectedAt(r, <<"id">>)
               ELSE ~(Finished(r) /\ Last(trace[r]) = "sqlInjectionProtection")

ReadOnly == {"list", "get", "health"}

\* a client's Sensitive counter moves only when a mutating request of that
\* client is at the Sensitive limiter, and then by one
SensitiveCountsMutatingOnly ==
    \A c \in Clients :
        hits'["strict"][c] # hits["strict"][c]
        => /\ hits'["strict"][c] = hits["strict"][c] + 1
           /\ \E r \in Slots : /\ pc[r] = "strictLimiter" /\ in[r].client = c
                                /\ in[r].op \in Mutating /\ pc'[r] # pc[r]

\* list, get-by-id and health never meet the Sensitive limiter, and with the
\* General and Resource-API quotas not used up they are answered by their
\* handlers
ReadsNotLimited ==
    \A r \in Slots :
        in[r].op \in ReadOnly
        => /\ "strict" \notin counted[r]
           /\ ~StageRan(r, "strictLimiter")
           /\ (Finished(r) /\ hits["general"][in[r].client] <= GeneralMax
                           /\ hits["api"][in[r].client] <= ApiMax)
              => /\ res[r].status # 429
                 /\ Last(trace[r]) \in {"listUsers", "getUser", "health"}

\* C23: the Sensitive limiter is applied to create, full update, partial
\* update and delete only: list, get-by-id and health requests never change
\* a client's Sensitive counter, and a client whose Sensitive quota is used
\* up is still served list and get-by-id requests.
C23_SensitiveOnMutatingOnly == []ReadsNotLimited /\ [][SensitiveCountsMutatingOnly]_vars

\* a client whose sixth mutating request was refused got its list answered 200
C23_Witness ==
    \E r \in Slots :
        /\ Finished(r) /\ in[r].op = "list" /\ res[r].status = 200
        /\ hits["strict"][in[r].client] > StrictMax
        /\ Len(strictLog[in[r].client]) > StrictMax
        /\ ~Last(strictLog[in[r].client])

\* the rows other than `id` that hold `email`
OtherHolders(email, id) == {u \in users : u.email = email /\ u.id # id}

\* a PUT or PATCH leaving its uniqueness check or its UPDATE, with the target
\* row in the table and the store answering, is answered 409 exactly when a
\* row with another id holds the email it carries
ConflictIffOtherHolder ==
    \A r \in Slots :
        (/\ pc[r] \in {"updateUser.emailCheck", "patchUser.emailCheck",
                       "updateUser.update", "patchUser.update"}
         /\ pc'[r] # pc[r]
         /\ SelectById(req[r].id) # {}
         /\ ~(pc'[r] = "done" /\ res'[r].status = 500))
        => LET email == Field(req[r].body, "email")
           IN  (pc'[r] = "done" /\ res'[r].status = 409)
               <=> (email # <<>> /\ OtherHolders(email, req[r].id) # {})

\* C24: the uniqueness check of PUT and PATCH leaves the target record out:
\* a valid PUT or PATCH on an existing id carrying that record's own email is
\* never answered 409, and it is answered 409 exactly when a record with
\* another id holds the email.
C24_UniquenessExcludesSelf == [][ConflictIffOtherHolder]_vars

\* a PUT or PATCH passed its uniqueness check while its own target row held
\* the email it carries
C24_Witness ==
    \E r \in Slots :
        /\ pc[r] \in {"updateUser.update", "patchUser.update"}
        /\ \E u \in users : u.id = req[r].id /\ u.email = Field(req[r].body, "email")

\* a request in the pipeline has no response yet, an answered one has one
AnsweredIffFinished ==
    \A r \in Slots :
        /\ Finished(r) => res[r].status # 0
        /\ ~Finished(r) => res[r] = NoRes

\* a response is written by the step that ends the request and by no other;
\* after it nothing of the request runs until the connection carries a new
\* request; a handler step that ends the request answers with one of the
\* handlers' statuses, 500 when the store call failed
RespondsOnce ==
    \A r \in Slots :
        /\ (res'[r] # res[r] /\ pc[r] \notin {"idle", "done"})
           => pc'[r] = "done" /\ res[r] = NoRes
        /\ (pc[r] = "done" /\ pc'[r] = "done")
           => /\ res'[r] = res[r] /\ trace'[r] = trace[r] /\ queries'[r] = queries[r]
              /\ hdr'[r] = hdr[r]
        /\ (pc[r] = "done" /\ pc'[r] # "done")
           => started' = started + 1 /\ res'[r] = NoRes /\ trace'[r] = <<>>
        /\ (pc[r] \in HandlerSteps /\ pc'[r] # pc[r])
           => \/ pc'[r] \in HandlerSteps /\ res'[r] = NoRes
              \/ pc'[r] = "done" /\ res'[r].status \in {200, 201, 404, 409, 500}

\* C25: every request gets exactly one response: a stage that answers does
\* not pass the request on, nothing of the request runs after its response,
\* and a handler whose store call fails answers 500 itself.
C25_ExactlyOneResponse == []AnsweredIffFinished /\ [][RespondsOnce]_vars

\* the UPDATE of a PATCH failed after both checks and the handler answered 500
C25_Witness ==
    \E r \in Slots :
        /\ Finished(r) /\ res[r].status = 500
        /\ Last(trace[r]) = "patchUser.update" /\ Len(queries[r]) = 3

\* C26: whenever a PUT or PATCH is answered 200, the target record existed
\* when the UPDATE ran and the response's data is that updated record, also
\* when a DELETE of the same id ran between the existence check and the
\* UPDATE.
C26_UpdatedRecordReturned ==
    [][\A r \in Slots :
          (/\ pc[r] \in {"updateUser.update", "patchUser.update"}
           /\ pc'[r] = "done" /\ res'[r].status = 200)
          => /\ SelectById(req[r].id) # {}
             /\ \E u \in users' : u.id = req[r].id /\ res'[r].data = <<u>>]_vars

\* C27: for any record at most one DELETE is answered 200 'User deleted
\* successfully': a DELETE answered 200 removed the record, and of two
\* DELETE requests for one id in flight together one is answered 404.
C27_OneDeletePerRecord ==
    [][\A r \in Slots :
          (pc[r] = "deleteUser.delete" /\ pc'[r] = "done" /\ res'[r].status = 200)
          => /\ SelectById(req[r].id) # {}
             /\ \A s \in Slots \ {r} :
                   ~(/\ in[s].op = "delete" /\ req[s].id = req[r].id
                     /\ Finished(s) /\ res[s].status = 200)]_vars

\* the table changes only in a step that ends a request with 200 or 201, and
\* a step that ends a request with another status leaves the table alone
WritesOnlyOnSuccess ==
    /\ users' # users
       => \E r \in Slots : /\ pc[r] \in WriteSteps /\ pc'[r] = "done"
                            /\ res'[r].status \in {200, 201}
    /\ \A r \in Slots :
          (pc[r] # "done" /\ pc'[r] = "done" /\ res'[r].status \notin {200, 201})
          => users' = users

\* C28: a request answered with a status other than 200 or 201 has written
\* nothing to the users table: no step of a request that ends in an error
\* response changes the table.
C28_ErrorsWriteNothing == [][WritesOnlyOnSuccess]_vars

\* an UPDATE was refused by the store or failed, after a create had written
C28_Witness ==
    \E r \in Slots :
        /\ Finished(r) /\ res[r].status \in {409, 500}
        /\ Last(trace[r]) \in {"updateUser.update", "patchUser.update"}
        /\ users # {}

LimiterStages == {"generalLimiter", "apiLimiter", "strictLimiter"}
LimiterOf(stage) ==
    CASE stage = "generalLimiter" -> "general"
      [] stage = "apiLimiter" -> "api"
      [] stage = "strictLimiter" -> "strict"
LimiterRank(l) == CASE l = "general" -> 1 [] l = "api" -> 2 [] l = "strict" -> 3
LimitersAfter(l) == {k \in Limiters : LimiterRank(k) > LimiterRank(l)}

\* the limiters a request has met, it met in the order General, Resource-API,
\* Sensitive
LimitersInOrder ==
    \A r \in Slots : \A i, j \in 1..Len(trace[r]) :
        (i < j /\ trace[r][i] \in LimiterStages /\ trace[r][j] \in LimiterStages)
        => LimiterRank(LimiterOf(trace[r][i])) < LimiterRank(LimiterOf(trace[r][j]))

\* the step in which a limiter answers 429 counts nothing for the limiters
\* after it, and the request was counted by none of them
RejectionStopsCounting ==
    \A r \in Slots :
        (pc[r] \in LimiterStages /\ pc'[r] = "done" /\ res'[r].status = 429)
        => \A k \in LimitersAfter(LimiterOf(pc[r])) :
              hits'[k] = hits[k] /\ k \notin counted'[r]

\* once the client's General quota is used up, no step counts a request of
\* that client for the Resource-API or the Sensitive limiter
ExhaustedConsumesNothing ==
    \A c \in Clients :
        hits["general"][c] > GeneralMax
        => \A k \in LimitersAfter("general") : hits'[k][c] = hits[k][c]

\* C29: the limiters are evaluated in the order General, Resource-API,
\* Sensitive, a request answered 429 by one of them is not counted by the
\* limiters after it, and a client whose General quota is exhausted consumes
\* no Resource-API or Sensitive quota with further requests.
C29_RejectedNotCountedLater ==
    []LimitersInOrder /\ [][RejectionStopsCounting /\ ExhaustedConsumesNothing]_vars

\* the General limiter has answered 429 to a client that had used the other
\* two limiters before
C29_Witness ==
    \E r \in Slots :
        /\ Finished(r) /\ res[r].status = 429
        /\ Last(trace[r]) = "generalLimiter"
        /\ counted[r] = {"general"}
        /\ hits["api"][in[r].client] > 0
        /\ hits["strict"][in[r].client] > StrictMax

\* the partial-update rule set let request r through to its handler
PatchAccepted(r) ==
    /\ in[r].op = "patch"
    /\ StageRan(r, "validateUserUpdate")
    /\ ~(Finished(r) /\ Last(trace[r]) = "validateUserUpdate")

\* C30: every field value the partial-update rule set accepts is accepted for
\* that field by the full rule set: the field's chain of validateUser raises
\* no error on it, and the supplied values pass the cross-field check.
C30_PatchAsStrictAsFull ==
    \A r \in Slots :
        PatchAccepted(r)
        => LET b == sanitizeObject(mongoSanitize(in[r].body))
           IN  /\ \A f \in AllowedSet :
                     HasField(b, f) => FieldRule(f, Field(b, f), TRUE).errors = <<>>
               /\ ~DangerousContent(JoinValues(RunRules(b, 1, FALSE, <<>>).body, 1))

====
